---- MODULE Spec2Model ----
(***************************************************************************)
(* Path management core of src/tactical_drawing_icd.py: the PathManager    *)
(* store (two id -> path dictionaries, two id counters) and the edit       *)
(* session kept by TacticalDrawingTab (editing_path_id,                    *)
(* original_path_data), driven by the tab's handlers.                      *)
(*                                                                         *)
(* Python objects are modelled with their identity: a path dictionary is   *)
(* an entry of the heap `dicts`, a waypoint list an entry of the heap      *)
(* `lists`, and a dictionary's 'points' field holds the reference of its   *)
(* list.  A shallow copy (dict.copy()) shares the list, a deep copy        *)
(* ([p[:] for p in ...]) allocates a new one.  Objects nothing refers to   *)
(* any more are dropped from the heaps, as the interpreter does.           *)
(*                                                                         *)
(* Handlers are modelled at the command boundary: the widget state that    *)
(* the window uses to gate commands (button enablement, the selection of   *)
(* the list widget) is not part of the model, so a command may arrive at   *)
(* any time and name any path id.                                          *)
(*                                                                         *)
(* Numbers.  Floats are modelled in fixed point: current_position in units *)
(* of 1/PosOne, distances in whole nautical miles, times in whole seconds. *)
(***************************************************************************)
EXTENDS Integers, Sequences, FiniteSets, TLC

VARIABLES
    aircraft_paths,      \* PathManager.aircraft_paths: id -> reference of the path dict
    track_paths,         \* PathManager.track_paths
    next_aircraft_id,    \* PathManager.next_aircraft_id
    next_track_id,       \* PathManager.next_track_id
    dicts,               \* heap of path dictionaries: reference -> record
    lists,               \* heap of waypoint lists: reference -> sequence of points
    editing_path_id,     \* TacticalDrawingTab.editing_path_id (NoId for None)
    original_path_data,  \* TacticalDrawingTab.original_path_data (NoData for None)
    drawing_mode,        \* TacticalDrawingTab.drawing_mode ("" for None)
    emitted,             \* what the last handler emitted: bridge signals and message boxes
    ret,                 \* the value a reader of the store holds (get_all_paths / get_path_by_id)
    lock,                \* PathManager.lock: "free" or the thread holding it
    threads,             \* per thread: the PathManager call it is in and where in it
    issued,              \* the ids add_aircraft_path / add_track_path returned since the last clear_all
    clock,               \* datetime.now() as a logical clock: the number of paths created so far
    ticks,               \* number of timer ticks so far
    edits,               \* number of waypoint edits applied so far
    budget,              \* how many creations, ticks and edits this run may make
    last,                \* history: the last handler, its outcome, the tick's elapsed time
    pre,                 \* history: the target path as it was when the session began
    hist                 \* history: what happened to the session's path since it began

store == <<aircraft_paths, track_paths, next_aircraft_id, next_track_id, dicts, lists>>
session == <<editing_path_id, original_path_data>>
history == <<last, pre, hist>>
threading == <<lock, threads>>
vars == <<store, session, drawing_mode, emitted, ret, clock, ticks, edits, budget, history,
          threading, issued>>

----------------------------------------------------------------------------
(* Bounds of the model *)

\* paths created in one run (each creation reads the clock once)
MaxCreated == 2
\* longest waypoint list an insert may produce
MaxLen == 3
\* timer ticks in one run
MaxTicks == 2
\* waypoint edits (move, insert, delete, edit completed) applied in one run
MaxEdits == 2
\* A run is explored within one of these budgets: one path with ticks and
\* edits, or several paths with a single tick.
Budgets ==
    {[created |-> 1, ticks |-> MaxTicks, edits |-> MaxEdits],
     [created |-> MaxCreated, ticks |-> 1, edits |-> 0]}
\* how far a distance supplied by the map page may be from the haversine sum
MaxDistanceError == 1

(* Program constants *)

\* 1.0 in the fixed-point unit of current_position
PosOne == 10000
\* 0.999 in the same unit
PosClamp == 9990
\* seconds per hour, the divisor of speed_kts
SecondsPerHour == 3600

----------------------------------------------------------------------------
(* Values *)

NoId == <<>>
\* an empty Python dict
EmptyDict == [i \in {} |-> 0]
NoData == [none |-> TRUE]
NoRet == [kind |-> "none"]
NoPre == [none |-> TRUE]

AircraftId(n) == <<"AC", n>>
TrackId(n) == <<"TRK", n>>
PathIds == {AircraftId(n) : n \in 1..MaxCreated} \cup {TrackId(n) : n \in 1..MaxCreated}

\* the points the commands of a run carry: [lat, lon] pairs, whole degrees
InputPoints == {<<20, 78>>, <<21, 79>>}
\* waypoint lists the map page sends (pathDrawn, pathEditCompleted)
InputPaths == {<<(<<20, 78>>)>>, <<(<<20, 78>>), <<21, 79>>>>, <<(<<21, 79>>), <<21, 79>>>>}
\* waypoint indexes the map page sends
InputIndexes == (0 - 1)..MaxLen
\* elapsed seconds between two timer ticks
ElapsedTimes == {0, 3600}
DrawingModes == {"aircraft", "track"}
WaypointCommands == {"on_waypoint_moved", "on_waypoint_inserted", "on_waypoint_deleted"}

\* random.randint(lo, hi) for a speed, by its lower end
RandSpeed(lo, hi) == {lo}
\* random.randint(lo, hi) for an altitude, by its lower end
RandAltitude(lo, hi) == {lo}

Min(a, b) == IF a <= b THEN a ELSE b

\* smallest reference not used by heap h
NewRef(h) == CHOOSE r \in 1..(Cardinality(DOMAIN h) + 1) :
                 r \notin DOMAIN h /\ \A s \in 1..(r - 1) : s \in DOMAIN h


----------------------------------------------------------------------------
(* Geodesy *)

\* R * 2 * asin(sqrt(a)) of one waypoint pair, rounded to whole nautical miles
Haversine(p1, p2) ==
    IF p1 = p2 THEN 0
    ELSE CASE {p1, p2} = {<<20, 78>>, <<21, 79>>} -> 82
           [] {p1, p2} = {<<20, 78>>, <<20, 79>>} -> 56
           [] {p1, p2} = {<<21, 79>>, <<20, 79>>} -> 60

RECURSIVE SumLegs(_, _)
SumLegs(points, i) ==
    IF i >= Len(points) THEN 0
    ELSE Haversine(points[i], points[i + 1]) + SumLegs(points, i + 1)

_calculate_distance(points) ==
    IF Len(points) < 2 THEN 0 ELSE SumLegs(points, 1)

----------------------------------------------------------------------------
(* PathManager: lookups *)

StoredIds == (DOMAIN aircraft_paths) \cup (DOMAIN track_paths)

\* the path dict stored under path_id (aircraft partition first); 0 when there is none
FindPath(path_id) ==
    IF path_id \in DOMAIN aircraft_paths THEN aircraft_paths[path_id]
    ELSE IF path_id \in DOMAIN track_paths THEN track_paths[path_id]
    ELSE 0

PathOf(path_id) == dicts[FindPath(path_id)]
PointsOf(path_id) == lists[PathOf(path_id).points]

StoredRefs(ap, tp) == {ap[i] : i \in DOMAIN ap} \cup {tp[i] : i \in DOMAIN tp}

----------------------------------------------------------------------------
(* PathManager: the methods, each as the values it leaves behind *)

\* dict.copy() of the stored path: a new dict whose 'points' is the same list
get_path_by_id(path_id) ==
    IF FindPath(path_id) # 0 THEN PathOf(path_id) ELSE NoData

\* a new outer dict holding the stored path dicts themselves
get_all_paths ==
    [i \in StoredIds |-> FindPath(i)]

\* speed / altitude: 0 stands for an argument left out (None)
add_aircraft_path(points, distance, speed, altitude, rnd_speed, rnd_altitude) ==
    LET path_id == AircraftId(next_aircraft_id)
        l == NewRef(lists)
        r == NewRef(dicts)
        path == [id |-> path_id,
                 type |-> "aircraft",
                 points |-> l,
                 distance_nm |-> distance,
                 speed_kts |-> IF speed # 0 THEN speed ELSE rnd_speed,
                 altitude_ft |-> IF altitude # 0 THEN altitude ELSE rnd_altitude,
                 current_position |-> 0,
                 color |-> "green",
                 created |-> clock]
    IN [path_id |-> path_id,
        paths |-> (path_id :> r) @@ aircraft_paths,
        next_id |-> next_aircraft_id + 1,
        dicts |-> (r :> path) @@ dicts,
        lists |-> (l :> points) @@ lists]

add_track_path(points, distance, speed, altitude, rnd_speed, rnd_altitude) ==
    LET path_id == TrackId(next_track_id)
        l == NewRef(lists)
        r == NewRef(dicts)
        path == [id |-> path_id,
                 type |-> "track",
                 points |-> l,
                 distance_nm |-> distance,
                 speed_kts |-> IF speed # 0 THEN speed ELSE rnd_speed,
                 altitude_ft |-> IF altitude # 0 THEN altitude ELSE rnd_altitude,
                 current_position |-> 0,
                 color |-> "red",
                 created |-> clock]
    IN [path_id |-> path_id,
        paths |-> (path_id :> r) @@ track_paths,
        next_id |-> next_track_id + 1,
        dicts |-> (r :> path) @@ dicts,
        lists |-> (l :> points) @@ lists]

\* new_points is a list the caller built; the path keeps that list
\* an update_path_points that also stamps the path with the present time
update_path_points_restamps(path_id, new_points) ==
    LET r == FindPath(path_id)
        l == NewRef(lists)
    IN IF r # 0
       THEN [ok |-> TRUE,
             dicts |-> [dicts EXCEPT ![r] =
                          [@ EXCEPT !.points = l,
                                    !.distance_nm = _calculate_distance(new_points),
                                    !.current_position = Min(@, PosClamp),
                                    !.created = clock]],
             lists |-> (l :> new_points) @@ lists]
       ELSE [ok |-> FALSE, dicts |-> dicts, lists |-> lists]

\* update_path_points without line 161: the progress is left as it is
update_path_points_unclamped(path_id, new_points) ==
    LET r == FindPath(path_id)
        l == NewRef(lists)
    IN IF r # 0
       THEN [ok |-> TRUE,
             dicts |-> [dicts EXCEPT ![r] =
                          [@ EXCEPT !.points = l,
                                    !.distance_nm = _calculate_distance(new_points)]],
             lists |-> (l :> new_points) @@ lists]
       ELSE [ok |-> FALSE, dicts |-> dicts, lists |-> lists]

update_path_points(path_id, new_points) ==
    LET r == FindPath(path_id)
        l == NewRef(lists)
    IN IF r # 0
       THEN [ok |-> TRUE,
             dicts |-> [dicts EXCEPT ![r] =
                          [@ EXCEPT !.points = l,
                                    !.distance_nm = _calculate_distance(new_points),
                                    !.current_position = Min(@, PosClamp)]],
             lists |-> (l :> new_points) @@ lists]
       ELSE [ok |-> FALSE, dicts |-> dicts, lists |-> lists]

\* an insert that puts the new waypoint at the end whatever the index
ListInsertAtEnd(s, i, x) == Append(s, x)
\* list.insert(i, x) for 0 <= i <= len
ListInsert(s, i, x) == SubSeq(s, 1, i) \o <<x>> \o SubSeq(s, i + 1, Len(s))
\* list.pop(i) for 0 <= i < len
ListPop(s, i) == SubSeq(s, 1, i) \o SubSeq(s, i + 2, Len(s))
\* s[i] = x for 0 <= i < len
ListSet(s, i, x) == [s EXCEPT ![i + 1] = x]

\* insert_waypoint without line 176: the distance is not recomputed
insert_waypoint_stale(path_id, insert_index, new_point) ==
    LET r == FindPath(path_id)
    IN IF r # 0 /\ 0 <= insert_index /\ insert_index <= Len(lists[dicts[r].points])
       THEN [ok |-> TRUE,
             dicts |-> dicts,
             lists |-> [lists EXCEPT ![dicts[r].points] =
                          ListInsert(@, insert_index, new_point)]]
       ELSE [ok |-> FALSE, dicts |-> dicts, lists |-> lists]

insert_waypoint(path_id, insert_index, new_point) ==
    LET r == FindPath(path_id)
    IN IF r # 0 /\ 0 <= insert_index /\ insert_index <= Len(lists[dicts[r].points])
       THEN LET l == dicts[r].points
                points == ListInsert(lists[l], insert_index, new_point)
            IN [ok |-> TRUE,
                dicts |-> [dicts EXCEPT ![r].distance_nm = _calculate_distance(points)],
                lists |-> [lists EXCEPT ![l] = points]]
       ELSE [ok |-> FALSE, dicts |-> dicts, lists |-> lists]

\* remove_waypoint with len(points) >= 2 in place of len(points) > 2
remove_waypoint_min2(path_id, waypoint_index) ==
    LET r == FindPath(path_id)
    IN IF r # 0 /\ Len(lists[dicts[r].points]) >= 2
          /\ 0 <= waypoint_index /\ waypoint_index < Len(lists[dicts[r].points])
       THEN LET l == dicts[r].points
                points == ListPop(lists[l], waypoint_index)
            IN [ok |-> TRUE,
                dicts |-> [dicts EXCEPT ![r].distance_nm = _calculate_distance(points)],
                lists |-> [lists EXCEPT ![l] = points]]
       ELSE [ok |-> FALSE, dicts |-> dicts, lists |-> lists]

remove_waypoint(path_id, waypoint_index) ==
    LET r == FindPath(path_id)
    IN IF r # 0 /\ Len(lists[dicts[r].points]) > 2
          /\ 0 <= waypoint_index /\ waypoint_index < Len(lists[dicts[r].points])
       THEN LET l == dicts[r].points
                points == ListPop(lists[l], waypoint_index)
            IN [ok |-> TRUE,
                dicts |-> [dicts EXCEPT ![r].distance_nm = _calculate_distance(points)],
                lists |-> [lists EXCEPT ![l] = points]]
       ELSE [ok |-> FALSE, dicts |-> dicts, lists |-> lists]

\* deleted: the reference of the removed dict, 0 for None
delete_path(path_id) ==
    IF path_id \in DOMAIN aircraft_paths
    THEN [deleted |-> aircraft_paths[path_id],
          aircraft_paths |-> [i \in (DOMAIN aircraft_paths) \ {path_id} |-> aircraft_paths[i]],
          track_paths |-> track_paths]
    ELSE IF path_id \in DOMAIN track_paths
    THEN [deleted |-> track_paths[path_id],
          aircraft_paths |-> aircraft_paths,
          track_paths |-> [i \in (DOMAIN track_paths) \ {path_id} |-> track_paths[i]]]
    ELSE [deleted |-> 0, aircraft_paths |-> aircraft_paths, track_paths |-> track_paths]

\* clear_all without lines 210-211: the counters keep counting
clear_all_keeps_counters ==
    [aircraft_paths |-> EmptyDict, track_paths |-> EmptyDict,
     next_aircraft_id |-> next_aircraft_id, next_track_id |-> next_track_id]

clear_all ==
    [aircraft_paths |-> EmptyDict, track_paths |-> EmptyDict,
     next_aircraft_id |-> 1, next_track_id |-> 1]

\* speed_kts / 3600 * delta_time, in units of 1/PosOne nautical mile (the common
\* factor 400 of PosOne and SecondsPerHour is divided out to stay in 32 bits)
DistanceTraveled(path, delta_time) ==
    (path.speed_kts * delta_time * (PosOne \div 400)) \div (SecondsPerHour \div 400)

\* distance_traveled / distance_nm, in units of 1/PosOne
PositionDelta(path, delta_time) ==
    DistanceTraveled(path, delta_time) \div path.distance_nm

\* current_position after one tick without the wrap of lines 229-230
AdvanceNoWrap(path, delta_time) ==
    path.current_position + PositionDelta(path, delta_time)

\* current_position after one tick when the wrap takes off one lap only
AdvanceOneLap(path, delta_time) ==
    LET moved == path.current_position + PositionDelta(path, delta_time)
    IN IF moved >= PosOne THEN moved - PosOne ELSE moved

\* current_position after one tick of a path that moves
AdvancePosition(path, delta_time) ==
    LET moved == path.current_position + PositionDelta(path, delta_time)
    IN IF moved >= PosOne THEN moved % PosOne ELSE moved

\* one path of the loop body of update_positions
AdvancePath(path, delta_time) ==
    IF path.distance_nm > 0
    THEN [path EXCEPT !.current_position = AdvancePosition(path, delta_time)]
    ELSE path

\* the ids of one partition in iteration (insertion) order: ids are inserted in
\* the order of their numbers
RECURSIVE InOrder(_, _, _)
InOrder(paths, prefix, n) ==
    IF n > MaxCreated + 1 THEN <<>>
    ELSE (IF <<prefix, n>> \in DOMAIN paths THEN <<(<<prefix, n>>)>> ELSE <<>>)
         \o InOrder(paths, prefix, n + 1)

\* 0.01 in the unit of current_position: how far ahead _calculate_heading looks
HeadingStep == 100

\* _calculate_heading: the progress of its second sample
next_pos(position) == Min(position + HeadingStep, PosClamp)

UpdateOf(path) ==
    [id |-> path.id, type |-> path.type, alt |-> path.altitude_ft, speed |-> path.speed_kts]

\* an update for every path of the partition, whatever its distance
UpdatesOfAll(paths, d, ids, i) ==
    [k \in 1..Len(ids) |-> UpdateOf(d[paths[ids[k]]])]

RECURSIVE UpdatesOf(_, _, _, _)
UpdatesOf(paths, d, ids, i) ==
    IF i > Len(ids) THEN <<>>
    ELSE (IF d[paths[ids[i]]].distance_nm > 0 THEN <<UpdateOf(d[paths[ids[i]]])>> ELSE <<>>)
         \o UpdatesOf(paths, d, ids, i + 1)

update_positions(delta_time) ==
    LET stored == StoredRefs(aircraft_paths, track_paths)
        d == [r \in DOMAIN dicts |->
                IF r \in stored THEN AdvancePath(dicts[r], delta_time) ELSE dicts[r]]
    IN [dicts |-> d,
        updates |-> UpdatesOf(aircraft_paths, d, InOrder(aircraft_paths, "AC", 1), 1)
                    \o UpdatesOf(track_paths, d, InOrder(track_paths, "TRK", 1), 1)]

----------------------------------------------------------------------------
(* TacticalDrawingTab: the edit session, each handler as the values it leaves behind *)

\* the snapshot keeping the list of the live path (no copy)
ShareList(l, heap) == [ref |-> l, lists |-> heap]

\* [p[:] for p in points]: a new list with the same waypoints
CopyPoints(l, heap) ==
    LET n == NewRef(heap)
    IN [ref |-> n, lists |-> (n :> heap[l]) @@ heap]

\* a begin-edit that opens the session before it looks the path up
start_path_editing_unchecked(path_id) ==
    [found |-> FALSE,
     editing_path_id |-> path_id,
     original_path_data |-> original_path_data,
     lists |-> lists]

start_path_editing(path_id) ==
    LET path_data == get_path_by_id(path_id)
    IN IF path_data = NoData
       THEN [found |-> FALSE,
             editing_path_id |-> editing_path_id,
             original_path_data |-> original_path_data,
             lists |-> lists]
       ELSE LET copy == CopyPoints(path_data.points, lists)
            IN [found |-> TRUE,
                editing_path_id |-> path_id,
                original_path_data |-> [id |-> path_data.id,
                                        type |-> path_data.type,
                                        points |-> copy.ref,
                                        distance_nm |-> path_data.distance_nm,
                                        speed_kts |-> path_data.speed_kts,
                                        altitude_ft |-> path_data.altitude_ft,
                                        current_position |-> path_data.current_position,
                                        color |-> path_data.color,
                                        created |-> path_data.created],
                lists |-> copy.lists]

\* Step 1 of cancel_path_editing: the store after the restore
RestoreOriginal(path_id, original) ==
    LET r == FindPath(path_id)
    IN IF r # 0
       THEN LET copy == CopyPoints(original.points, lists)
            IN [dicts |-> [dicts EXCEPT ![r] =
                             [@ EXCEPT !.points = copy.ref,
                                       !.distance_nm = original.distance_nm,
                                       !.speed_kts = original.speed_kts,
                                       !.altitude_ft = original.altitude_ft,
                                       !.current_position = original.current_position]],
                lists |-> copy.lists]
       ELSE [dicts |-> dicts, lists |-> lists]

\* a cancel without the test for an open session
cancel_path_editing_unguarded ==
    LET restored == IF editing_path_id = NoId \/ original_path_data = NoData
                    THEN [dicts |-> dicts, lists |-> lists]
                    ELSE RestoreOriginal(editing_path_id, original_path_data)
    IN [done |-> TRUE, dicts |-> restored.dicts, lists |-> restored.lists,
        editing_path_id |-> NoId,
        original_path_data |-> NoData,
        emitted |-> <<[sig |-> "stopPathEditing"]>>]

cancel_path_editing ==
    IF editing_path_id = NoId \/ original_path_data = NoData
    THEN [done |-> FALSE, dicts |-> dicts, lists |-> lists,
          editing_path_id |-> editing_path_id,
          original_path_data |-> original_path_data,
          emitted |-> <<>>]
    ELSE LET restored == RestoreOriginal(editing_path_id, original_path_data)
         IN [done |-> TRUE, dicts |-> restored.dicts, lists |-> restored.lists,
             editing_path_id |-> NoId,
             original_path_data |-> NoData,
             emitted |-> <<[sig |-> "stopPathEditing"],
                           [sig |-> "restorePath", id |-> original_path_data.id]>>]

\* a commit that writes the snapshot back, as cancel does
save_path_edits_reverts ==
    IF editing_path_id = NoId
    THEN [done |-> FALSE, dicts |-> dicts, lists |-> lists,
          editing_path_id |-> editing_path_id,
          original_path_data |-> original_path_data,
          emitted |-> <<>>]
    ELSE cancel_path_editing

\* a commit that also puts the path back to the start of its route
save_path_edits_rewinds ==
    IF editing_path_id = NoId
    THEN [done |-> FALSE, dicts |-> dicts, lists |-> lists,
          editing_path_id |-> editing_path_id,
          original_path_data |-> original_path_data,
          emitted |-> <<>>]
    ELSE IF get_path_by_id(editing_path_id) = NoData
    THEN cancel_path_editing
    ELSE [done |-> TRUE,
          dicts |-> [dicts EXCEPT ![FindPath(editing_path_id)].current_position = 0],
          lists |-> lists,
          editing_path_id |-> NoId,
          original_path_data |-> NoData,
          emitted |-> <<[sig |-> "stopPathEditing"],
                        [sig |-> "addPath", id |-> editing_path_id],
                        [sig |-> "information", text |-> "Path changes saved successfully!"]>>]

save_path_edits ==
    IF editing_path_id = NoId
    THEN [done |-> FALSE, dicts |-> dicts, lists |-> lists,
          editing_path_id |-> editing_path_id,
          original_path_data |-> original_path_data,
          emitted |-> <<>>]
    ELSE IF get_path_by_id(editing_path_id) = NoData
    THEN cancel_path_editing
    ELSE [done |-> TRUE, dicts |-> dicts, lists |-> lists,
          editing_path_id |-> NoId,
          original_path_data |-> NoData,
          emitted |-> <<[sig |-> "stopPathEditing"],
                        [sig |-> "addPath", id |-> editing_path_id],
                        [sig |-> "information", text |-> "Path changes saved successfully!"]>>]

\* a waypoint move that also sends the path back to the start of its route
on_waypoint_moved_rewinds(path_id, index, point) ==
    LET r == FindPath(path_id)
    IN IF r # 0 /\ 0 <= index /\ index < Len(lists[dicts[r].points])
       THEN LET l == dicts[r].points
                points == ListSet(lists[l], index, point)
            IN [ok |-> TRUE,
                dicts |-> [dicts EXCEPT ![r].distance_nm = _calculate_distance(points),
                                        ![r].current_position = 0],
                lists |-> [lists EXCEPT ![l] = points]]
       ELSE [ok |-> FALSE, dicts |-> dicts, lists |-> lists]

\* the body of on_waypoint_moved under the lock
on_waypoint_moved(path_id, index, point) ==
    LET r == FindPath(path_id)
    IN IF r # 0 /\ 0 <= index /\ index < Len(lists[dicts[r].points])
       THEN LET l == dicts[r].points
                points == ListSet(lists[l], index, point)
            IN [ok |-> TRUE,
                dicts |-> [dicts EXCEPT ![r].distance_nm = _calculate_distance(points)],
                lists |-> [lists EXCEPT ![l] = points]]
       ELSE [ok |-> FALSE, dicts |-> dicts, lists |-> lists]

\* on_waypoint_moved, on_waypoint_inserted and on_waypoint_deleted as the store
\* they leave: the command is applied only when it names the path of the session
on_waypoint_command(op, path_id, index, point) ==
    IF path_id # editing_path_id
    THEN [ok |-> FALSE, dicts |-> dicts, lists |-> lists]
    ELSE CASE op = "on_waypoint_moved" -> on_waypoint_moved(path_id, index, point)
           [] op = "on_waypoint_inserted" -> insert_waypoint(path_id, index, point)
           [] op = "on_waypoint_deleted" -> remove_waypoint(path_id, index)

\* the value a store command hands back to its caller, given what it did:
\* True / False from update_path_points, insert_waypoint and remove_waypoint,
\* the removed dict / None from delete_path; on_waypoint_moved has no return
\* statement and shows no message, whether it wrote the waypoint or not
Returned(op, r) ==
    CASE op \in {"update_path_points", "insert_waypoint", "remove_waypoint"} ->
           IF r.ok THEN "True" ELSE "False"
      [] op = "delete_path" -> IF r.deleted # 0 THEN "dict" ELSE "None"
      [] op = "on_waypoint_moved" -> "None"

\* on_path_edit_completed hands the command to update_path_points as it comes
on_path_edit_completed(path_id, new_points) ==
    update_path_points(path_id, new_points)

----------------------------------------------------------------------------
(* A caller of get_path_by_id / get_all_paths and what it does with the value *)

\* the ids of the paths a returned value holds
ReturnedIds(rt) ==
    CASE rt.kind = "by_id" -> {rt.value.id}
      [] rt.kind = "all" -> DOMAIN rt.value
      [] OTHER -> {}

\* value['points'][index] = point (value[path_id]['points'][index] = point for
\* the dict of get_all_paths): the heaps after the assignment
WriteReturnedWaypoint(rt, path_id, index, point) ==
    LET l == IF rt.kind = "by_id" THEN rt.value.points ELSE dicts[rt.value[path_id]].points
    IN [dicts |-> dicts,
        lists |-> [lists EXCEPT ![l] = ListSet(@, index, point)],
        ret |-> rt]

\* value['speed_kts'] = speed (value[path_id]['speed_kts'] = speed)
WriteReturnedField(rt, path_id, speed) ==
    IF rt.kind = "by_id"
    THEN [dicts |-> dicts, lists |-> lists, ret |-> [rt EXCEPT !.value.speed_kts = speed]]
    ELSE [dicts |-> [dicts EXCEPT ![rt.value[path_id]].speed_kts = speed],
          lists |-> lists,
          ret |-> rt]

\* del value[path_id] on the dict of get_all_paths
RemoveReturnedEntry(rt, path_id) ==
    [rt EXCEPT !.value = [i \in (DOMAIN rt.value) \ {path_id} |-> rt.value[i]]]

\* the store by value: every stored path with its waypoints
StoreView(ap, tp, d, l) ==
    [i \in (DOMAIN ap) \cup (DOMAIN tp) |->
        LET r == IF i \in DOMAIN ap THEN ap[i] ELSE tp[i]
        IN [d[r] EXCEPT !.points = l[@]]]

----------------------------------------------------------------------------
(* Bookkeeping shared by the actions *)

\* Where an object lives is not observable.  After every handler the objects
\* something still refers to are numbered in the order in which the roots reach
\* them (the aircraft dictionary, the track dictionary, the snapshot, the
\* reader's value); what nothing refers to is dropped, as the interpreter does.
RECURSIVE RefsInOrder(_, _)
RefsInOrder(paths, ids) ==
    IF ids = <<>> THEN <<>>
    ELSE <<paths[Head(ids)]>> \o RefsInOrder(paths, Tail(ids))

\* roots without its repetitions, each entry where it first occurs
RECURSIVE Distinct(_, _)
Distinct(roots, seen) ==
    IF roots = <<>> THEN <<>>
    ELSE IF Head(roots) \in seen THEN Distinct(Tail(roots), seen)
    ELSE <<Head(roots)>> \o Distinct(Tail(roots), seen \cup {Head(roots)})

\* the number the object x gets: its place in the distinct roots
Rank(order, x) == CHOOSE n \in 1..Len(order) : order[n] = x

DictRoots(ap, tp, rt) ==
    RefsInOrder(ap, InOrder(ap, "AC", 1)) \o RefsInOrder(tp, InOrder(tp, "TRK", 1))
    \o (IF rt.kind = "all"
        THEN RefsInOrder(rt.value, InOrder(rt.value, "AC", 1))
             \o RefsInOrder(rt.value, InOrder(rt.value, "TRK", 1))
        ELSE <<>>)

ListRoots(d, dorder, snap, rt) ==
    [i \in 1..Len(dorder) |-> d[dorder[i]].points]
    \o (IF snap = NoData THEN <<>> ELSE <<snap.points>>)
    \o (IF rt.kind \in {"by_id", "path_data"} THEN <<rt.value.points>> ELSE <<>>)

\* history kept with the path_data of a start_path_editing in progress: the
\* values (waypoints, distance, speed, altitude, progress) its path held at
\* every instant since get_path_by_id read it, the store after this step
\* included; it is closed when start_path_editing has built its snapshot
HeldAfter(rt, ap, tp, d, l) ==
    LET path_id == rt.value.id
        r == IF path_id \in DOMAIN ap THEN ap[path_id]
             ELSE IF path_id \in DOMAIN tp THEN tp[path_id] ELSE 0
    IN IF r # 0 /\ \E t \in DOMAIN threads : threads[t].call.op = "start_path_editing"
       THEN rt.held \cup {[points |-> l[d[r].points],
                           distance_nm |-> d[r].distance_nm,
                           speed_kts |-> d[r].speed_kts,
                           altitude_ft |-> d[r].altitude_ft,
                           current_position |-> d[r].current_position]}
       ELSE rt.held

\* the next values of the dictionaries, the heaps, the snapshot and the reader's value
Install(ap, tp, d, l, snap, rt) ==
    \E dorder \in {Distinct(DictRoots(ap, tp, rt), {})} :
    \E lorder \in {Distinct(ListRoots(d, dorder, snap, rt), {})} :
       /\ aircraft_paths' = [i \in DOMAIN ap |-> Rank(dorder, ap[i])]
       /\ track_paths' = [i \in DOMAIN tp |-> Rank(dorder, tp[i])]
       /\ dicts' = [n \in 1..Len(dorder) |->
                      [d[dorder[n]] EXCEPT !.points = Rank(lorder, @)]]
       /\ lists' = [n \in 1..Len(lorder) |-> l[lorder[n]]]
       /\ original_path_data' = IF snap = NoData THEN NoData
                                ELSE [snap EXCEPT !.points = Rank(lorder, @)]
       /\ ret' = CASE rt.kind = "all" ->
                        [rt EXCEPT !.value = [i \in DOMAIN rt.value |-> Rank(dorder, rt.value[i])]]
                   [] rt.kind = "by_id" ->
                        [rt EXCEPT !.value = [@ EXCEPT !.points = Rank(lorder, @)]]
                   [] rt.kind = "path_data" ->
                        [rt EXCEPT !.value = [@ EXCEPT !.points = Rank(lorder, @)],
                                   !.held = HeldAfter(rt, ap, tp, d, l)]
                   [] OTHER -> rt

\* the five mutable fields of a stored path, waypoints by value
FieldsOf(path_id) ==
    [points |-> PointsOf(path_id),
     distance_nm |-> PathOf(path_id).distance_nm,
     speed_kts |-> PathOf(path_id).speed_kts,
     altitude_ft |-> PathOf(path_id).altitude_ft,
     current_position |-> PathOf(path_id).current_position]

\* history of the open session: the kinds of handler that ran since it began.
\* {} when no session is open, {"open"} right after begin-edit; then "edit" (a
\* waypoint move, insert or delete), "replace" (update_path_points), "tick" and
\* "void" (the session's path was deleted or the store cleared) are added; the
\* creation or deletion of another path leaves it as it is.
HistAfter(kind) ==
    IF editing_path_id = NoId THEN {}
    ELSE IF kind = "same" THEN hist
    ELSE hist \cup {kind}

Track(op, outcome, dt, kind) ==
    /\ last' = [op |-> op, outcome |-> outcome, dt |-> dt]
    /\ hist' = HistAfter(kind)
    /\ pre' = IF editing_path_id = NoId THEN NoPre ELSE pre

\* The outcome of a handler is "ok" (it did what it was asked), "fail" (it
\* rejected the command), "ignored" (it returned at once) or "same" (it ran and
\* left every variable as it was).
\* A handler that rejected or ignored its command changed no variable of the
\* program: the state it leaves differs from the one before only in the
\* observations `emitted` and `last`, which every handler overwrites.  Every run
\* through such a state is also a run through the state before it, so the
\* handlers are explored from the states a successful handler left.
Continues == last.outcome = "ok"

----------------------------------------------------------------------------
(* The handlers of TacticalDrawingTab *)

SetDrawingMode(mode) ==
    /\ Continues
    /\ clock < budget.created
    /\ drawing_mode' = mode
    /\ emitted' = <<[sig |-> "enableDrawing", mode |-> mode]>>
    /\ Track("set_drawing_mode", IF drawing_mode = mode THEN "same" ELSE "ok", 0, "same")
    /\ UNCHANGED <<store, session, ret, clock, ticks, edits, budget, threading, issued>>

StopDrawing ==
    /\ Continues
    /\ drawing_mode' = ""
    /\ emitted' = <<[sig |-> "disableDrawing"]>>
    /\ Track("stop_drawing", IF drawing_mode = "" THEN "same" ELSE "ok", 0, "same")
    /\ UNCHANGED <<store, session, ret, clock, ticks, edits, budget, threading, issued>>

\* the distances the map page may send with a drawn path
DrawnDistances(points) ==
    {_calculate_distance(points) + e : e \in 0..MaxDistanceError}

OnPathDrawn(points, distance) ==
    /\ Continues
    /\ clock < budget.created
    /\ \/ /\ drawing_mode \in {"aircraft", "drag_aircraft"}
          /\ \E rnd_speed \in RandSpeed(400, 550), rnd_altitude \in RandAltitude(10000, 35000) :
               \E a \in {add_aircraft_path(points, distance, 0, 0, rnd_speed, rnd_altitude)} :
                  /\ Install(a.paths, track_paths, a.dicts, a.lists, original_path_data, ret)
                  /\ issued' = Append(issued, [id |-> a.path_id, by |-> "main",
                                                contended |-> "none"])
                  /\ next_aircraft_id' = a.next_id
                  /\ emitted' = <<[sig |-> "addPath", id |-> a.path_id],
                                  [sig |-> "disableDrawing"]>>
          /\ UNCHANGED next_track_id
       \/ /\ drawing_mode \in {"track", "drag_track"}
          /\ \E rnd_speed \in RandSpeed(350, 500), rnd_altitude \in RandAltitude(5000, 20000) :
               \E a \in {add_track_path(points, distance, 0, 0, rnd_speed, rnd_altitude)} :
                  /\ Install(aircraft_paths, a.paths, a.dicts, a.lists, original_path_data, ret)
                  /\ issued' = Append(issued, [id |-> a.path_id, by |-> "main",
                                                contended |-> "none"])
                  /\ next_track_id' = a.next_id
                  /\ emitted' = <<[sig |-> "addPath", id |-> a.path_id],
                                  [sig |-> "disableDrawing"]>>
          /\ UNCHANGED next_aircraft_id
    /\ drawing_mode' = ""
    /\ clock' = clock + 1
    /\ Track("on_path_drawn", "ok", 0, "same")
    /\ UNCHANGED <<editing_path_id, ticks, edits, budget, threading>>

\* a pathDrawn signal that arrives while no drawing mode is set
OnPathDrawnIgnored ==
    /\ Continues
    /\ drawing_mode = ""
    /\ emitted' = <<>>
    /\ Track("on_path_drawn", "ignored", 0, "same")
    /\ UNCHANGED <<store, session, drawing_mode, ret, clock, ticks, edits, budget, threading, issued>>

\* waypoints create_manual_path puts on the line from start to end (num_points)
ManualWaypoints == 2
\* the values of the speed and altitude boxes (their defaults)
ManualSpeeds == {450}
ManualAltitudes == {15000}

\* start + (end - start) * t at t = i / (num_points - 1), in whole degrees
ManualPoints(start, end) ==
    [n \in 1..ManualWaypoints |->
       <<start[1] + ((end[1] - start[1]) * (n - 1)) \div (ManualWaypoints - 1),
         start[2] + ((end[2] - start[2]) * (n - 1)) \div (ManualWaypoints - 1)>>]

\* TacticalDrawingTab.calculate_path_distance: the same haversine sum
calculate_path_distance(points) == _calculate_distance(points)

\* the CREATE PATH button: it is enabled at all times, whatever the session
CreateManualPath(path_type, speed, altitude, start, end) ==
    /\ Continues
    /\ clock < budget.created
    /\ \E points \in {ManualPoints(start, end)} :
       \E distance \in {calculate_path_distance(points)} :
          \/ /\ path_type = "aircraft"
             /\ \E a \in {add_aircraft_path(points, distance, speed, altitude, 0, 0)} :
                  /\ Install(a.paths, track_paths, a.dicts, a.lists, original_path_data, ret)
                  /\ issued' = Append(issued, [id |-> a.path_id, by |-> "main",
                                                contended |-> "none"])
                  /\ next_aircraft_id' = a.next_id
                  /\ emitted' = <<[sig |-> "addPath", id |-> a.path_id]>>
             /\ UNCHANGED next_track_id
          \/ /\ path_type = "track"
             /\ \E a \in {add_track_path(points, distance, speed, altitude, 0, 0)} :
                  /\ Install(aircraft_paths, a.paths, a.dicts, a.lists, original_path_data, ret)
                  /\ issued' = Append(issued, [id |-> a.path_id, by |-> "main",
                                                contended |-> "none"])
                  /\ next_track_id' = a.next_id
                  /\ emitted' = <<[sig |-> "addPath", id |-> a.path_id]>>
             /\ UNCHANGED next_aircraft_id
    /\ clock' = clock + 1
    /\ Track("create_manual_path", "ok", 0, "same")
    /\ UNCHANGED <<editing_path_id, drawing_mode, ticks, edits, budget, threading>>

StartPathEditing(path_id) ==
    /\ Continues
    /\ \E r \in {start_path_editing(path_id)} :
          /\ editing_path_id' = r.editing_path_id
          /\ Install(aircraft_paths, track_paths, dicts, r.lists, r.original_path_data, ret)
          /\ IF r.found
             THEN /\ emitted' = <<[sig |-> "startPathEditing", id |-> path_id]>>
                  /\ last' = [op |-> "start_path_editing", outcome |-> "ok", dt |-> 0]
                  /\ hist' = {"open"}
                  /\ pre' = [id |-> path_id,
                             created |-> PathOf(path_id).created,
                             fields |-> FieldsOf(path_id)]
             ELSE /\ emitted' = <<[sig |-> "warning", text |-> "Path not found."]>>
                  /\ Track("start_path_editing", "fail", 0, "same")
          /\ UNCHANGED <<next_aircraft_id, next_track_id, drawing_mode,
                         clock, ticks, edits, budget, threading, issued>>

SavePathEdits ==
    /\ Continues
    /\ \E r \in {save_path_edits} :
          /\ editing_path_id' = r.editing_path_id
          /\ Install(aircraft_paths, track_paths, r.dicts, r.lists, r.original_path_data, ret)
          /\ emitted' = r.emitted
          /\ IF r.done
             THEN /\ last' = [op |-> "save_path_edits", outcome |-> "ok", dt |-> 0]
                  /\ UNCHANGED <<pre, hist>>
             ELSE Track("save_path_edits", "ignored", 0, "same")
          /\ UNCHANGED <<next_aircraft_id, next_track_id, drawing_mode,
                         clock, ticks, edits, budget, threading, issued>>

CancelPathEditing ==
    /\ Continues
    /\ \E r \in {cancel_path_editing} :
          /\ editing_path_id' = r.editing_path_id
          /\ Install(aircraft_paths, track_paths, r.dicts, r.lists, r.original_path_data, ret)
          /\ emitted' = r.emitted
          /\ IF r.done
             THEN /\ last' = [op |-> "cancel_path_editing", outcome |-> "ok", dt |-> 0]
                  /\ UNCHANGED <<pre, hist>>
             ELSE Track("cancel_path_editing", "ignored", 0, "same")
          /\ UNCHANGED <<next_aircraft_id, next_track_id, drawing_mode,
                         clock, ticks, edits, budget, threading, issued>>

\* the user answered Yes to the confirmation
DeleteSelectedPath(path_id) ==
    /\ Continues
    /\ \E r \in {delete_path(path_id)} :
          /\ Install(r.aircraft_paths, r.track_paths, dicts, lists, original_path_data, ret)
          /\ IF r.deleted = 0
             THEN /\ emitted' = <<[sig |-> "warning", text |-> "Failed to delete path from data."]>>
                  /\ Track("delete_selected_path", "fail", 0, "same")
             ELSE /\ emitted' = <<[sig |-> "pathDeleted", id |-> path_id],
                                  [sig |-> "information", text |-> "deleted successfully!"]>>
                  /\ Track("delete_selected_path", "ok", 0,
                           IF path_id = editing_path_id THEN "void" ELSE "same")
          /\ UNCHANGED <<next_aircraft_id, next_track_id, editing_path_id, drawing_mode,
                         clock, ticks, edits, budget, threading, issued>>

OnWaypointMoved(path_id, index, point) ==
    /\ Continues
    /\ path_id = editing_path_id
    /\ edits < budget.edits
    /\ \E r \in {on_waypoint_moved(path_id, index, point)} :
          /\ Install(aircraft_paths, track_paths, r.dicts, r.lists, original_path_data, ret)
          /\ edits' = IF r.ok THEN edits + 1 ELSE edits
          /\ Track("on_waypoint_moved", IF r.ok THEN "ok" ELSE "fail", 0,
                   IF r.ok THEN "edit" ELSE "same")
    /\ emitted' = <<>>
    /\ UNCHANGED <<next_aircraft_id, next_track_id, editing_path_id, drawing_mode,
                   clock, ticks, budget, threading, issued>>

OnWaypointInserted(path_id, insert_index, point) ==
    /\ Continues
    /\ path_id = editing_path_id
    /\ edits < budget.edits
    /\ FindPath(path_id) # 0 => Len(PointsOf(path_id)) < MaxLen
    /\ \E r \in {insert_waypoint(path_id, insert_index, point)} :
          /\ Install(aircraft_paths, track_paths, r.dicts, r.lists, original_path_data, ret)
          /\ edits' = IF r.ok THEN edits + 1 ELSE edits
          /\ Track("on_waypoint_inserted", IF r.ok THEN "ok" ELSE "fail", 0,
                   IF r.ok THEN "edit" ELSE "same")
    /\ emitted' = <<>>
    /\ UNCHANGED <<next_aircraft_id, next_track_id, editing_path_id, drawing_mode,
                   clock, ticks, budget, threading, issued>>

OnWaypointDeleted(path_id, index) ==
    /\ Continues
    /\ path_id = editing_path_id
    /\ edits < budget.edits
    /\ \E r \in {remove_waypoint(path_id, index)} :
          /\ Install(aircraft_paths, track_paths, r.dicts, r.lists, original_path_data, ret)
          /\ emitted' = IF r.ok THEN <<>>
                        ELSE <<[sig |-> "warning",
                                text |-> "Cannot delete waypoint. Minimum 2 waypoints required."]>>
          /\ edits' = IF r.ok THEN edits + 1 ELSE edits
          /\ Track("on_waypoint_deleted", IF r.ok THEN "ok" ELSE "fail", 0,
                   IF r.ok THEN "edit" ELSE "same")
    /\ UNCHANGED <<next_aircraft_id, next_track_id, editing_path_id, drawing_mode,
                   clock, ticks, budget, threading, issued>>

\* a waypoint command (op: on_waypoint_moved, on_waypoint_inserted,
\* on_waypoint_deleted) naming a path that is not the one being edited
OnWaypointCommandIgnored(op, path_id) ==
    /\ Continues
    /\ path_id # editing_path_id
    /\ emitted' = <<>>
    /\ Track(op, "ignored", 0, "same")
    /\ UNCHANGED <<store, session, drawing_mode, ret, clock, ticks, edits, budget, threading, issued>>

OnPathEditCompleted(path_id, new_points) ==
    /\ Continues
    /\ edits < budget.edits
    /\ \E r \in {on_path_edit_completed(path_id, new_points)} :
          /\ Install(aircraft_paths, track_paths, r.dicts, r.lists, original_path_data, ret)
          /\ emitted' = <<>>
          /\ edits' = IF r.ok THEN edits + 1 ELSE edits
          /\ Track("on_path_edit_completed", IF r.ok THEN "ok" ELSE "fail", 0,
                   IF r.ok THEN "replace" ELSE "same")
          /\ UNCHANGED <<next_aircraft_id, next_track_id, editing_path_id, drawing_mode,
                         clock, ticks, budget, threading, issued>>

ClearAllPaths ==
    /\ Continues
    /\ \E r \in {clear_all} :
          /\ Install(r.aircraft_paths, r.track_paths, dicts, lists, original_path_data, ret)
          /\ next_aircraft_id' = r.next_aircraft_id
          /\ next_track_id' = r.next_track_id
          /\ emitted' = <<[sig |-> "clearAllPaths"]>>
          /\ issued' = <<>>
          /\ Track("clear_all_paths", "ok", 0, "void")
          /\ UNCHANGED <<editing_path_id, drawing_mode, clock, ticks, edits, budget, threading>>

\* a variant that notifies the map once per update
PositionNotificationsSplit(updates) ==
    [k \in 1..Len(updates) |-> [sig |-> "updatePosition", batch |-> <<updates[k]>>]]

\* what a tick sends out for the batch update_positions returned: nothing for
\* an empty batch, otherwise the whole batch once to the map and once to the
\* socket sender (sending_enabled is set at construction and never cleared)
PositionNotifications(updates) ==
    IF updates # <<>>
    THEN <<[sig |-> "updatePosition", batch |-> updates],
           [sig |-> "update_data", batch |-> updates]>>
    ELSE <<>>

\* one timer tick; delta_time is the time since the previous one
UpdateAircraftPositions(delta_time) ==
    /\ Continues
    /\ ticks < budget.ticks
    /\ \E r \in {update_positions(delta_time)} :
          /\ Install(aircraft_paths, track_paths, r.dicts, lists, original_path_data, ret)
          /\ emitted' = PositionNotifications(r.updates)
    /\ ticks' = ticks + 1
    /\ Track("update_aircraft_positions", "ok", delta_time, "tick")
    /\ UNCHANGED <<next_aircraft_id, next_track_id, editing_path_id, drawing_mode,
                   clock, edits, budget, threading, issued>>

----------------------------------------------------------------------------
(* The caller of the read methods *)

\* speed the caller writes into a returned value
ReaderSpeed == 0

GetPathById(path_id) ==
    /\ Continues
    /\ \E rt \in {IF FindPath(path_id) # 0
                  THEN [kind |-> "by_id", value |-> get_path_by_id(path_id)]
                  ELSE NoRet} :
          /\ Install(aircraft_paths, track_paths, dicts, lists, original_path_data, rt)
          /\ Track("get_path_by_id", IF rt = NoRet THEN "fail" ELSE "ok", 0, "same")
    /\ emitted' = <<>>
    /\ UNCHANGED <<next_aircraft_id, next_track_id, editing_path_id, drawing_mode,
                   clock, ticks, edits, budget, threading, issued>>

GetAllPaths ==
    /\ Continues
    /\ Install(aircraft_paths, track_paths, dicts, lists, original_path_data,
               [kind |-> "all", value |-> get_all_paths])
    /\ Track("get_all_paths", "ok", 0, "same")
    /\ emitted' = <<>>
    /\ UNCHANGED <<next_aircraft_id, next_track_id, editing_path_id, drawing_mode,
                   clock, ticks, edits, budget, threading, issued>>

ReaderWritesWaypoint(path_id, point) ==
    /\ Continues
    /\ path_id \in ReturnedIds(ret)
    /\ \E w \in {WriteReturnedWaypoint(ret, path_id, 0, point)} :
          /\ Install(aircraft_paths, track_paths, w.dicts, w.lists, original_path_data, w.ret)
          /\ Track("reader_writes_waypoint", IF w.lists = lists THEN "same" ELSE "ok", 0, "same")
    /\ emitted' = <<>>
    /\ UNCHANGED <<next_aircraft_id, next_track_id, editing_path_id, drawing_mode,
                   clock, ticks, edits, budget, threading, issued>>

ReaderWritesField(path_id) ==
    /\ Continues
    /\ path_id \in ReturnedIds(ret)
    /\ \E w \in {WriteReturnedField(ret, path_id, ReaderSpeed)} :
          /\ Install(aircraft_paths, track_paths, w.dicts, w.lists, original_path_data, w.ret)
          /\ Track("reader_writes_field",
                   IF w.dicts = dicts /\ w.ret = ret THEN "same" ELSE "ok", 0, "same")
    /\ emitted' = <<>>
    /\ UNCHANGED <<next_aircraft_id, next_track_id, editing_path_id, drawing_mode,
                   clock, ticks, edits, budget, threading, issued>>

ReaderRemovesEntry(path_id) ==
    /\ Continues
    /\ ret.kind = "all"
    /\ path_id \in DOMAIN ret.value
    /\ Install(aircraft_paths, track_paths, dicts, lists, original_path_data,
               RemoveReturnedEntry(ret, path_id))
    /\ Track("reader_removes_entry", "ok", 0, "same")
    /\ emitted' = <<>>
    /\ UNCHANGED <<next_aircraft_id, next_track_id, editing_path_id, drawing_mode,
                   clock, ticks, edits, budget, threading, issued>>

----------------------------------------------------------------------------
(* PathManager called from several threads.  Every method is `with self.lock:`
   around its body; a thread is idle, waiting for the lock, or at a statement
   of the body of the call it is in.  generate_random_paths runs its
   add_aircraft_path / add_track_path calls on a thread of its own. *)

Threads == {"main", "worker"}

\* paths created in one run of the threads
MaxThreadCreated == 3
\* A run of the threads is explored within one of these budgets: creations,
\* removals and update_stats only, or fewer creations with a tick and a
\* waypoint mutation.
ThreadBudgets ==
    {[created |-> MaxThreadCreated, ticks |-> 0, edits |-> 0, removals |-> TRUE, stats |-> TRUE,
      begins |-> FALSE],
     [created |-> MaxThreadCreated - 1, ticks |-> 1, edits |-> 1, removals |-> FALSE,
      stats |-> FALSE, begins |-> FALSE]}

\* the arguments of the calls the threads make
ThreadPoints == <<(<<20, 78>>), <<21, 79>>>>
ThreadNewPoints == <<(<<21, 79>>), <<20, 78>>, <<21, 79>>>>
ThreadIndex == 1
ThreadPoint == <<20, 78>>

AddOps == {"add_aircraft_path", "add_track_path"}
MutationOps == {"update_path_points", "insert_waypoint", "remove_waypoint", "on_waypoint_moved"}

NoCall == [op |-> "none"]
NoExpected == [none |-> TRUE]
Refused == <<>>
\* contended: the method the holder of the lock was in when this call began
IdleThread == [pc |-> "idle", call |-> NoCall, contended |-> "none",
               expected |-> NoExpected, path_id |-> NoId, todo |-> <<>>]

\* generate_random_paths hands speed and altitude to the add methods:
\* random.randint(350, 550) / (15000, 35000) for aircraft,
\* random.randint(300, 500) / (5000, 25000) for tracks
Calls ==
    {[op |-> "add_aircraft_path", points |-> ThreadPoints, speed |-> s, altitude |-> a] :
        s \in RandSpeed(350, 550), a \in RandAltitude(15000, 35000)}
    \cup {[op |-> "add_track_path", points |-> ThreadPoints, speed |-> s, altitude |-> a] :
        s \in RandSpeed(300, 500), a \in RandAltitude(5000, 25000)}
    \cup {[op |-> "delete_path", path_id |-> i] : i \in StoredIds}
    \cup {[op |-> "clear_all"]}
    \cup {[op |-> "update_stats"]}
    \cup {[op |-> "start_path_editing", path_id |-> i] : i \in StoredIds}
    \cup {[op |-> "update_positions", delta_time |-> d] : d \in ElapsedTimes \ {0}}
    \cup {[op |-> "update_path_points", path_id |-> i, new_points |-> ThreadNewPoints] :
        i \in StoredIds}
    \cup {[op |-> o, path_id |-> i, index |-> ThreadIndex, point |-> ThreadPoint] :
        o \in MutationOps \ {"update_path_points"}, i \in StoredIds}

\* the store and the counters by value
StoreNow ==
    [view |-> StoreView(aircraft_paths, track_paths, dicts, lists),
     next |-> <<next_aircraft_id, next_track_id>>]

\* what the call leaves when its body runs alone from the present state
Expected(call) ==
    CASE call.op = "add_aircraft_path" ->
           LET a == add_aircraft_path(call.points, _calculate_distance(call.points),
                                      call.speed, call.altitude, 0, 0)
           IN [view |-> StoreView(a.paths, track_paths, a.dicts, a.lists),
               next |-> <<a.next_id, next_track_id>>]
      [] call.op = "add_track_path" ->
           LET a == add_track_path(call.points, _calculate_distance(call.points),
                                   call.speed, call.altitude, 0, 0)
           IN [view |-> StoreView(aircraft_paths, a.paths, a.dicts, a.lists),
               next |-> <<next_aircraft_id, a.next_id>>]
      [] call.op = "delete_path" ->
           LET r == delete_path(call.path_id)
           IN [view |-> StoreView(r.aircraft_paths, r.track_paths, dicts, lists),
               next |-> <<next_aircraft_id, next_track_id>>]
      [] call.op = "clear_all" ->
           [view |-> StoreView(clear_all.aircraft_paths, clear_all.track_paths, dicts, lists),
            next |-> <<clear_all.next_aircraft_id, clear_all.next_track_id>>]
      [] call.op = "update_positions" ->
           [view |-> StoreView(aircraft_paths, track_paths,
                               update_positions(call.delta_time).dicts, lists),
            next |-> <<next_aircraft_id, next_track_id>>]
      [] call.op = "start_path_editing" -> StoreNow
      [] call.op = "update_path_points" ->
           LET r == update_path_points(call.path_id, call.new_points)
           IN [view |-> StoreView(aircraft_paths, track_paths, r.dicts, r.lists),
               next |-> <<next_aircraft_id, next_track_id>>]
      [] call.op = "insert_waypoint" ->
           LET r == insert_waypoint(call.path_id, call.index, call.point)
           IN [view |-> StoreView(aircraft_paths, track_paths, r.dicts, r.lists),
               next |-> <<next_aircraft_id, next_track_id>>]
      [] call.op = "remove_waypoint" ->
           LET r == remove_waypoint(call.path_id, call.index)
           IN [view |-> StoreView(aircraft_paths, track_paths, r.dicts, r.lists),
               next |-> <<next_aircraft_id, next_track_id>>]
      [] call.op = "on_waypoint_moved" ->
           LET r == on_waypoint_moved(call.path_id, call.index, call.point)
           IN [view |-> StoreView(aircraft_paths, track_paths, r.dicts, r.lists),
               next |-> <<next_aircraft_id, next_track_id>>]

\* an update_positions that takes the lock again once it holds it
FirstPcLocksAgain(call) ==
    CASE call.op \in AddOps -> "path_id"
      [] call.op = "delete_path" -> "pop"
      [] call.op = "clear_all" -> "clear"
      [] call.op = "update_positions" -> "acquire"
      [] call.op = "start_path_editing" -> "copy"
      [] call.op \in MutationOps -> "points"

\* the first statement of the body
FirstPc(call) ==
    CASE call.op \in AddOps -> "path_id"
      [] call.op = "delete_path" -> "pop"
      [] call.op = "clear_all" -> "clear"
      [] call.op = "update_positions" -> "for"
      [] call.op = "start_path_editing" -> "copy"
      [] call.op \in MutationOps -> "points"

\* a lock that lets every thread in
CanAcquireAlways(t) == TRUE

\* threading.Lock: acquire blocks while another thread holds the lock
CanAcquire(t) == lock = "free"

\* an id made from the number of stored paths
NextPathIdByCount(op) ==
    IF op = "add_aircraft_path"
    THEN AircraftId(Cardinality(DOMAIN aircraft_paths) + 1)
    ELSE TrackId(Cardinality(DOMAIN track_paths) + 1)

\* f"AC-{self.next_aircraft_id:04d}" / f"TRK-{self.next_track_id:04d}"
NextPathId(op) ==
    IF op = "add_aircraft_path"
    THEN AircraftId(next_aircraft_id)
    ELSE TrackId(next_track_id)

\* the variables no PathManager method touches
ThreadFrame ==
    UNCHANGED <<editing_path_id, drawing_mode, emitted, budget, history>>

StoreKept ==
    UNCHANGED <<store, original_path_data, ret>>

\* the add calls that have not stored their path yet
AddsInFlight ==
    Cardinality({t \in Threads : threads[t].call.op \in AddOps /\ threads[t].pc # "return"})

\* the thread reaches `with self.lock:` of a method
Call(t, call) ==
    /\ threads[t].pc = "idle"
    /\ call.op \in AddOps => clock + AddsInFlight < budget.created
    /\ call.op = "update_positions" => ticks < budget.ticks
    /\ call.op \in MutationOps => edits < budget.edits
    /\ call.op \in {"delete_path", "clear_all"} => budget.removals /\ clock < budget.created
    /\ call.op = "update_stats" => budget.stats
    /\ call.op = "start_path_editing" =>
          /\ budget.begins
          /\ editing_path_id = NoId
          /\ ret = NoRet
          /\ \A u \in Threads : threads[u].call.op # "start_path_editing"
    /\ threads' = [threads EXCEPT ![t] =
                      [IdleThread EXCEPT !.pc = IF call.op = "update_stats"
                                                 THEN "len_aircraft" ELSE "acquire",
                                         !.call = call,
                                         !.contended = IF lock = "free" THEN "none"
                                                       ELSE threads[lock].call.op]]
    /\ ticks' = IF call.op = "update_positions" THEN ticks + 1 ELSE ticks
    /\ edits' = IF call.op \in MutationOps THEN edits + 1 ELSE edits
    /\ StoreKept
    /\ ThreadFrame
    /\ UNCHANGED <<lock, issued, clock>>

\* the thread gets the lock and is at the first statement of the body
Acquire(t) ==
    /\ threads[t].pc = "acquire"
    /\ CanAcquire(t)
    /\ lock' = t
    /\ threads' = [threads EXCEPT ![t].pc = FirstPc(threads[t].call),
                                  ![t].expected = Expected(threads[t].call),
                                  ![t].todo = IF threads[t].call.op = "update_positions"
                                              THEN InOrder(aircraft_paths, "AC", 1)
                                                   \o InOrder(track_paths, "TRK", 1)
                                              ELSE <<>>]
    /\ StoreKept
    /\ ThreadFrame
    /\ UNCHANGED <<issued, clock, ticks, edits>>

\* add_aircraft_path / add_track_path, a statement at a time: the id (94/114),
\* the counter (95/115), the new dictionary (97-107/117-127)
AddPathStep(t) ==
    LET th == threads[t]
        aircraft == th.call.op = "add_aircraft_path"
    IN
    /\ th.call.op \in AddOps
    /\ \/ /\ th.pc = "path_id"
          /\ threads' = [threads EXCEPT ![t].path_id = NextPathId(th.call.op),
                                        ![t].pc = "next_id"]
          /\ StoreKept
          /\ UNCHANGED clock
       \/ /\ th.pc = "next_id"
          /\ next_aircraft_id' = IF aircraft THEN next_aircraft_id + 1 ELSE next_aircraft_id
          /\ next_track_id' = IF aircraft THEN next_track_id ELSE next_track_id + 1
          /\ threads' = [threads EXCEPT ![t].pc = "store"]
          /\ UNCHANGED <<aircraft_paths, track_paths, dicts, lists, original_path_data,
                         ret, clock>>
       \/ /\ th.pc = "store"
          /\ LET l == NewRef(lists)
                 r == NewRef(dicts)
                 path == [id |-> th.path_id,
                          type |-> IF aircraft THEN "aircraft" ELSE "track",
                          points |-> l,
                          distance_nm |-> _calculate_distance(th.call.points),
                          speed_kts |-> th.call.speed,
                          altitude_ft |-> th.call.altitude,
                          current_position |-> 0,
                          color |-> IF aircraft THEN "green" ELSE "red",
                          created |-> clock]
             IN Install(IF aircraft THEN (th.path_id :> r) @@ aircraft_paths
                                    ELSE aircraft_paths,
                        IF aircraft THEN track_paths
                                    ELSE (th.path_id :> r) @@ track_paths,
                        (r :> path) @@ dicts,
                        (l :> th.call.points) @@ lists,
                        original_path_data, ret)
          /\ clock' = clock + 1
          /\ threads' = [threads EXCEPT ![t].pc = "return"]
          /\ UNCHANGED <<next_aircraft_id, next_track_id>>
    /\ ThreadFrame
    /\ UNCHANGED <<lock, issued, ticks, edits>>

\* delete_path: the pop of 197-202
DeletePathStep(t) ==
    /\ threads[t].pc = "pop"
    /\ \E r \in {delete_path(threads[t].call.path_id)} :
          Install(r.aircraft_paths, r.track_paths, dicts, lists, original_path_data, ret)
    /\ threads' = [threads EXCEPT ![t].pc = "return"]
    /\ ThreadFrame
    /\ UNCHANGED <<next_aircraft_id, next_track_id, lock, issued, clock, ticks, edits>>

\* clear_all: the two clear() of 208-209, then the counters of 210-211
ClearAllStep(t) ==
    /\ \/ /\ threads[t].pc = "clear"
          /\ Install(EmptyDict, EmptyDict, dicts, lists, original_path_data, ret)
          /\ threads' = [threads EXCEPT ![t].pc = "reset"]
          /\ UNCHANGED <<next_aircraft_id, next_track_id>>
       \/ /\ threads[t].pc = "reset"
          /\ next_aircraft_id' = clear_all.next_aircraft_id
          /\ next_track_id' = clear_all.next_track_id
          /\ threads' = [threads EXCEPT ![t].pc = "return"]
          /\ UNCHANGED <<aircraft_paths, track_paths, dicts, lists, original_path_data, ret>>
    /\ ThreadFrame
    /\ UNCHANGED <<lock, issued, clock, ticks, edits>>

\* update_positions, a statement at a time: the loop head with the test of
\* 224/249, the addition of 226/251, the wrap of 229-230/253-254
UpdatePositionsStep(t) ==
    LET th == threads[t]
        r == IF th.todo = <<>> THEN 0 ELSE FindPath(Head(th.todo))
        moving == r # 0 /\ dicts[r].distance_nm > 0
    IN
    /\ \/ /\ th.pc = "for"
          /\ threads' = [threads EXCEPT
                           ![t].pc = IF th.todo = <<>> THEN "return"
                                     ELSE IF moving THEN "advance" ELSE "for",
                           ![t].todo = IF th.todo = <<>> \/ moving THEN th.todo
                                       ELSE Tail(th.todo)]
          /\ StoreKept
       \/ /\ th.pc = "advance"
          /\ Install(aircraft_paths, track_paths,
                     IF moving
                     THEN [dicts EXCEPT ![r].current_position =
                             @ + PositionDelta(dicts[r], th.call.delta_time)]
                     ELSE dicts,
                     lists, original_path_data, ret)
          /\ threads' = [threads EXCEPT ![t].pc = "wrap"]
          /\ UNCHANGED <<next_aircraft_id, next_track_id>>
       \/ /\ th.pc = "wrap"
          /\ Install(aircraft_paths, track_paths,
                     IF r # 0 /\ dicts[r].current_position >= PosOne
                     THEN [dicts EXCEPT ![r].current_position = @ % PosOne]
                     ELSE dicts,
                     lists, original_path_data, ret)
          /\ threads' = [threads EXCEPT ![t].pc = "for", ![t].todo = Tail(th.todo)]
          /\ UNCHANGED <<next_aircraft_id, next_track_id>>
    /\ ThreadFrame
    /\ UNCHANGED <<lock, issued, clock, ticks, edits>>

\* the waypoint list after the first write of a mutation, Refused when the
\* test before it fails: path['points'] = new_points (157), insert (175), pop (190),
\* path['points'][index] = [lat, lon] (981/986)
MutatedPoints(call, points) ==
    CASE call.op = "update_path_points" -> call.new_points
      [] call.op = "insert_waypoint" ->
           IF 0 <= call.index /\ call.index <= Len(points)
           THEN ListInsert(points, call.index, call.point) ELSE Refused
      [] call.op = "remove_waypoint" ->
           IF Len(points) > 2 /\ 0 <= call.index /\ call.index < Len(points)
           THEN ListPop(points, call.index) ELSE Refused
      [] call.op = "on_waypoint_moved" ->
           IF 0 <= call.index /\ call.index < Len(points)
           THEN ListSet(points, call.index, call.point) ELSE Refused

\* update_path_points, insert_waypoint, remove_waypoint and the locked part of
\* on_waypoint_moved, a statement at a time: the waypoints, the distance
\* (159/176/191/982/987), the clamp of update_path_points (161)
MutationStep(t) ==
    LET th == threads[t]
        r == FindPath(th.call.path_id)
    IN
    /\ th.call.op \in MutationOps
    /\ \/ /\ th.pc = "points"
          /\ \E points \in {IF r = 0 THEN Refused ELSE MutatedPoints(th.call, lists[dicts[r].points])} :
                IF points = Refused
                THEN /\ threads' = [threads EXCEPT ![t].pc = "return"]
                     /\ StoreKept
                ELSE /\ IF th.call.op = "update_path_points"
                        THEN \E l \in {NewRef(lists)} :
                                Install(aircraft_paths, track_paths,
                                        [dicts EXCEPT ![r].points = l],
                                        (l :> points) @@ lists, original_path_data, ret)
                        ELSE Install(aircraft_paths, track_paths, dicts,
                                     [lists EXCEPT ![dicts[r].points] = points],
                                     original_path_data, ret)
                     /\ threads' = [threads EXCEPT ![t].pc = "distance"]
                     /\ UNCHANGED <<next_aircraft_id, next_track_id>>
       \/ /\ th.pc = "distance"
          /\ Install(aircraft_paths, track_paths,
                     IF r # 0
                     THEN [dicts EXCEPT ![r].distance_nm =
                             _calculate_distance(lists[dicts[r].points])]
                     ELSE dicts,
                     lists, original_path_data, ret)
          /\ threads' = [threads EXCEPT ![t].pc =
                           IF th.call.op = "update_path_points" THEN "clamp" ELSE "return"]
          /\ UNCHANGED <<next_aircraft_id, next_track_id>>
       \/ /\ th.pc = "clamp"
          /\ Install(aircraft_paths, track_paths,
                     IF r # 0
                     THEN [dicts EXCEPT ![r].current_position = Min(@, PosClamp)]
                     ELSE dicts,
                     lists, original_path_data, ret)
          /\ threads' = [threads EXCEPT ![t].pc = "return"]
          /\ UNCHANGED <<next_aircraft_id, next_track_id>>
    /\ ThreadFrame
    /\ UNCHANGED <<lock, issued, clock, ticks, edits>>

\* TacticalDrawingTab.update_stats, which takes no lock: len(aircraft_paths)
\* at 1219, len(track_paths) at 1220; generate_random_paths calls it on its
\* own thread (1167), the handlers call it on the main thread
UpdateStatsStep(t) ==
    /\ \/ /\ threads[t].pc = "len_aircraft"
          /\ threads' = [threads EXCEPT ![t].pc = "len_tracks"]
       \/ /\ threads[t].pc = "len_tracks"
          /\ threads' = [threads EXCEPT ![t] = IdleThread]
    /\ StoreKept
    /\ ThreadFrame
    /\ UNCHANGED <<lock, issued, clock, ticks, edits>>

\* start_path_editing called while other threads use the store: the body of
\* get_path_by_id under the lock (path.copy(), 142-145), and after the lock is
\* released the snapshot built from the returned dict and from the waypoint
\* list it shares with the stored path (739-750, 767)
BeginEditStep(t) ==
    LET th == threads[t]
    IN
    /\ th.call.op = "start_path_editing"
    /\ \/ /\ th.pc = "copy"
          /\ \E rt \in {IF FindPath(th.call.path_id) # 0
                        THEN [kind |-> "path_data",
                              value |-> get_path_by_id(th.call.path_id),
                              held |-> {}]
                        ELSE NoRet} :
                Install(aircraft_paths, track_paths, dicts, lists, original_path_data, rt)
          /\ threads' = [threads EXCEPT ![t].pc = "return"]
          /\ UNCHANGED <<editing_path_id, emitted>>
       \/ /\ th.pc = "snapshot"
          /\ IF ret = NoRet
             THEN /\ emitted' = <<[sig |-> "warning", text |-> "Path not found."]>>
                  /\ UNCHANGED <<editing_path_id, aircraft_paths, track_paths, dicts, lists,
                                 original_path_data, ret>>
             ELSE \E copy \in {CopyPoints(ret.value.points, lists)} :
                  /\ editing_path_id' = th.call.path_id
                  /\ Install(aircraft_paths, track_paths, dicts, copy.lists,
                             [id |-> ret.value.id,
                              type |-> ret.value.type,
                              points |-> copy.ref,
                              distance_nm |-> ret.value.distance_nm,
                              speed_kts |-> ret.value.speed_kts,
                              altitude_ft |-> ret.value.altitude_ft,
                              current_position |-> ret.value.current_position,
                              color |-> ret.value.color,
                              created |-> ret.value.created],
                             ret)
                  /\ emitted' = <<[sig |-> "startPathEditing", id |-> th.call.path_id]>>
          /\ threads' = [threads EXCEPT ![t] = IdleThread]
    /\ UNCHANGED <<next_aircraft_id, next_track_id, drawing_mode, budget, history,
                   lock, issued, clock, ticks, edits>>

\* a with block that leaves the lock with the thread
LockKeptAtExit(t) == t

\* the lock after the with block of thread t is left (Lock.__exit__)
LockAtExit(t) == "free"

\* the end of the with block: the lock is released and the method returns
Return(t) ==
    LET th == threads[t]
    IN
    /\ th.pc = "return"
    /\ lock' = LockAtExit(t)
    /\ threads' = [threads EXCEPT ![t] = IF th.call.op = "start_path_editing"
                                         THEN [th EXCEPT !.pc = "snapshot"]
                                         ELSE IdleThread]
    /\ issued' = IF th.call.op \in AddOps
                 THEN Append(issued, [id |-> th.path_id, by |-> t, contended |-> th.contended])
                 ELSE IF th.call.op = "clear_all" THEN <<>>
                 ELSE issued
    /\ StoreKept
    /\ ThreadFrame
    /\ UNCHANGED <<clock, ticks, edits>>

\* save_path_edits and cancel_path_editing a statement at a time.
\* The statements of a session end in the order of the source: for a commit
\* stopPathEditing (837), addPath (840-841), the reset of the session
\* (847-848), the message box (860); for a cancel the restore under the lock
\* (876-888), stopPathEditing (891), restorePath (894), the reset (897-898).

\* a session end that forgets the session before it notifies the map
EndStepsResetFirst(op) ==
    IF op = "save_path_edits"
    THEN <<"reset", "stopPathEditing", "addPath", "information">>
    ELSE <<"restore", "reset", "stopPathEditing", "restorePath">>

EndSteps(op) ==
    IF op = "save_path_edits"
    THEN <<"stopPathEditing", "addPath", "reset", "information">>
    ELSE <<"restore", "stopPathEditing", "restorePath", "reset">>

\* the handler that runs for the Save / Cancel button: save_path_edits hands
\* over to cancel_path_editing when the path is gone (819-821)
EndHandler(op) ==
    IF op = "save_path_edits" /\ get_path_by_id(editing_path_id) = NoData
    THEN "cancel_path_editing"
    ELSE op

\* the handler is entered with a session open; path_id and original are its locals
EndSession(op) ==
    /\ Continues
    /\ editing_path_id # NoId
    /\ EndHandler(op) = "cancel_path_editing" => original_path_data # NoData
    /\ threads' = [threads EXCEPT !["main"] =
                      [IdleThread EXCEPT !.pc = "end",
                                         !.call = [op |-> EndHandler(op),
                                                   path_id |-> editing_path_id,
                                                   original |-> original_path_data.id],
                                         !.todo = EndSteps(EndHandler(op))]]
    /\ emitted' = <<>>
    /\ last' = [op |-> EndHandler(op), outcome |-> "running", dt |-> 0]
    /\ UNCHANGED <<store, session, drawing_mode, ret, clock, ticks, edits, budget,
                   pre, hist, lock, issued>>

\* the next statement of the handler
EndSessionStep ==
    LET th == threads["main"]
        s == Head(th.todo)
    IN
    /\ th.pc = "end"
    /\ \/ /\ s = "restore"
          /\ \E r \in {RestoreOriginal(editing_path_id, original_path_data)} :
                Install(aircraft_paths, track_paths, r.dicts, r.lists, original_path_data, ret)
          /\ UNCHANGED <<editing_path_id, emitted>>
       \/ /\ s \in {"stopPathEditing", "information"}
          /\ emitted' = Append(emitted,
                               IF s = "stopPathEditing" THEN [sig |-> "stopPathEditing"]
                               ELSE [sig |-> "information",
                                     text |-> "Path changes saved successfully!"])
          /\ UNCHANGED <<aircraft_paths, track_paths, dicts, lists, session, ret>>
       \/ /\ s = "addPath"
          /\ emitted' = Append(emitted, [sig |-> "addPath", id |-> th.call.path_id])
          /\ UNCHANGED <<aircraft_paths, track_paths, dicts, lists, session, ret>>
       \/ /\ s = "restorePath"
          /\ emitted' = Append(emitted, [sig |-> "restorePath", id |-> th.call.original])
          /\ UNCHANGED <<aircraft_paths, track_paths, dicts, lists, session, ret>>
       \/ /\ s = "reset"
          /\ editing_path_id' = NoId
          /\ Install(aircraft_paths, track_paths, dicts, lists, NoData, ret)
          /\ UNCHANGED emitted
    /\ IF Len(th.todo) = 1
       THEN /\ threads' = [threads EXCEPT !["main"] = IdleThread]
            /\ last' = [last EXCEPT !.outcome = "ok"]
       ELSE /\ threads' = [threads EXCEPT !["main"].todo = Tail(th.todo)]
            /\ UNCHANGED last
    /\ UNCHANGED <<next_aircraft_id, next_track_id, drawing_mode, clock, ticks, edits,
                   budget, pre, hist, lock, issued>>

----------------------------------------------------------------------------
(* The program *)

\* the state after TacticalDrawingTab.__init__
Constructed ==
    /\ aircraft_paths = EmptyDict
    /\ track_paths = EmptyDict
    /\ next_aircraft_id = 1
    /\ next_track_id = 1
    /\ dicts = EmptyDict
    /\ lists = EmptyDict
    /\ editing_path_id = NoId
    /\ original_path_data = NoData
    /\ drawing_mode = ""
    /\ emitted = <<>>
    /\ ret = NoRet
    /\ clock = 0
    /\ ticks = 0
    /\ edits = 0
    /\ last = [op |-> "__init__", outcome |-> "ok", dt |-> 0]
    /\ pre = NoPre
    /\ hist = {}
    /\ lock = "free"
    /\ threads = [t \in Threads |-> IdleThread]
    /\ issued = <<>>

Init == Constructed /\ budget \in Budgets

Next ==
    \/ \E mode \in DrawingModes : SetDrawingMode(mode)
    \/ StopDrawing
    \/ \E points \in InputPaths : \E distance \in DrawnDistances(points) :
         OnPathDrawn(points, distance)
    \/ OnPathDrawnIgnored
    \/ \E path_id \in PathIds : StartPathEditing(path_id)
    \/ SavePathEdits
    \/ CancelPathEditing
    \/ \E path_id \in PathIds : DeleteSelectedPath(path_id)
    \/ \E path_id \in PathIds, index \in InputIndexes, point \in InputPoints :
         OnWaypointMoved(path_id, index, point)
    \/ \E path_id \in PathIds, index \in InputIndexes, point \in InputPoints :
         OnWaypointInserted(path_id, index, point)
    \/ \E path_id \in PathIds, index \in InputIndexes : OnWaypointDeleted(path_id, index)
    \/ \E op \in WaypointCommands, path_id \in PathIds :
         OnWaypointCommandIgnored(op, path_id)
    \/ \E path_id \in PathIds : \E new_points \in InputPaths :
         OnPathEditCompleted(path_id, new_points)
    \/ ClearAllPaths
    \/ \E delta_time \in ElapsedTimes : UpdateAircraftPositions(delta_time)

Spec == Init /\ [][Next]_vars

\* the store with a caller that reads it and writes into what it was handed
NextReads ==
    \/ \E mode \in DrawingModes : SetDrawingMode(mode)
    \/ \E points \in InputPaths : \E distance \in DrawnDistances(points) :
         OnPathDrawn(points, distance)
    \/ \E path_id \in PathIds : DeleteSelectedPath(path_id)
    \/ \E path_id \in PathIds : GetPathById(path_id)
    \/ GetAllPaths
    \/ \E path_id \in PathIds, point \in InputPoints : ReaderWritesWaypoint(path_id, point)
    \/ \E path_id \in PathIds : ReaderWritesField(path_id)
    \/ \E path_id \in PathIds : ReaderRemovesEntry(path_id)

SpecReads == Init /\ [][NextReads]_vars

\* the store with paths drawn, advanced by ticks that end just before the end
\* of the route or laps later, and replaced by update_path_points
LateTimes == {843, 3600}

NextReplace ==
    \/ \E mode \in DrawingModes : SetDrawingMode(mode)
    \/ \E points \in InputPaths : \E distance \in DrawnDistances(points) :
         OnPathDrawn(points, distance)
    \/ \E delta_time \in LateTimes : UpdateAircraftPositions(delta_time)
    \/ \E path_id \in PathIds : \E new_points \in InputPaths :
         OnPathEditCompleted(path_id, new_points)

SpecReplace == Init /\ [][NextReplace]_vars

\* the window with paths created from the manual form, one of them edited,
\* the store cleared and the timer running
NextManual ==
    \/ \E path_type \in DrawingModes, speed \in ManualSpeeds, altitude \in ManualAltitudes,
          start \in InputPoints, end \in InputPoints :
         CreateManualPath(path_type, speed, altitude, start, end)
    \/ \E path_id \in PathIds : StartPathEditing(path_id)
    \/ SavePathEdits
    \/ CancelPathEditing
    \/ \E path_id \in PathIds, index \in InputIndexes, point \in InputPoints :
         OnWaypointMoved(path_id, index, point)
    \/ \E path_id \in PathIds, index \in InputIndexes, point \in InputPoints :
         OnWaypointInserted(path_id, index, point)
    \/ \E path_id \in PathIds, index \in InputIndexes : OnWaypointDeleted(path_id, index)
    \/ ClearAllPaths
    \/ \E delta_time \in ElapsedTimes : UpdateAircraftPositions(delta_time)

\* runs that create two paths, advance them once and edit the waypoints of one
ManualBudgets == {[created |-> MaxCreated, ticks |-> 1, edits |-> MaxEdits]}

InitManual == Constructed /\ budget \in ManualBudgets

SpecManual == InitManual /\ [][NextManual]_vars

\* one path drawn, edited, advanced, deleted, and its session ended by Save or
\* Cancel a statement at a time
EndBudgets == {[created |-> 1, ticks |-> 1, edits |-> 1]}

InitEnd == Constructed /\ budget \in EndBudgets

NextEnd ==
    \/ \E mode \in DrawingModes : SetDrawingMode(mode)
    \/ \E points \in InputPaths : \E distance \in DrawnDistances(points) :
         OnPathDrawn(points, distance)
    \/ \E path_id \in PathIds : StartPathEditing(path_id)
    \/ \E path_id \in PathIds, index \in InputIndexes, point \in InputPoints :
         OnWaypointMoved(path_id, index, point)
    \/ \E path_id \in PathIds : DeleteSelectedPath(path_id)
    \/ \E delta_time \in ElapsedTimes : UpdateAircraftPositions(delta_time)
    \/ \E op \in {"save_path_edits", "cancel_path_editing"} : EndSession(op)
    \/ EndSessionStep

SpecEnd == InitEnd /\ [][NextEnd]_vars

\* the store with two threads calling its methods
NextThreads ==
    \/ \E t \in Threads : \E call \in Calls : Call(t, call)
    \/ \E t \in Threads : Acquire(t)
    \/ \E t \in Threads : AddPathStep(t)
    \/ \E t \in Threads : DeletePathStep(t)
    \/ \E t \in Threads : ClearAllStep(t)
    \/ \E t \in Threads : UpdatePositionsStep(t)
    \/ \E t \in Threads : MutationStep(t)
    \/ \E t \in Threads : UpdateStatsStep(t)
    \/ \E t \in Threads : Return(t)

InitThreads == Constructed /\ budget \in ThreadBudgets

SpecThreads == InitThreads /\ [][NextThreads]_vars

\* a begin-edit on one thread while the other advances and edits the paths
BeginBudgets ==
    {[created |-> 1, ticks |-> 1, edits |-> 1, removals |-> FALSE, stats |-> FALSE,
      begins |-> TRUE]}

InitBegin == Constructed /\ budget \in BeginBudgets

NextBegin ==
    \/ \E t \in Threads : \E call \in Calls : Call(t, call)
    \/ \E t \in Threads : Acquire(t)
    \/ \E t \in Threads : AddPathStep(t)
    \/ \E t \in Threads : UpdatePositionsStep(t)
    \/ \E t \in Threads : MutationStep(t)
    \/ \E t \in Threads : BeginEditStep(t)
    \/ \E t \in Threads : Return(t)

SpecBegin == InitBegin /\ [][NextBegin]_vars

\* The threads under a fair scheduler: a thread inside a call is given the
\* processor again and again, and a thread waiting for the lock gets it if
\* the lock is free again and again.
ThreadRuns(t) ==
    \/ AddPathStep(t)
    \/ DeletePathStep(t)
    \/ ClearAllStep(t)
    \/ UpdatePositionsStep(t)
    \/ MutationStep(t)
    \/ UpdateStatsStep(t)
    \/ Return(t)

FairScheduling ==
    \A t \in Threads : WF_vars(ThreadRuns(t)) /\ SF_vars(Acquire(t))

\* the runs with a tick: creations, one update_positions, one mutation
InitLive == Constructed /\ budget \in {b \in ThreadBudgets : b.ticks > 0}

NextLive ==
    \/ \E t \in Threads : \E call \in Calls : Call(t, call)
    \/ \E t \in Threads : Acquire(t)
    \/ \E t \in Threads : AddPathStep(t)
    \/ \E t \in Threads : UpdatePositionsStep(t)
    \/ \E t \in Threads : MutationStep(t)
    \/ \E t \in Threads : Return(t)

SpecThreadsFair == InitLive /\ [][NextLive]_vars /\ FairScheduling

----------------------------------------------------------------------------
(* Properties *)

CancelDone == last.op = "cancel_path_editing" /\ last.outcome = "ok"
SaveDone == last.op = "save_path_edits" /\ last.outcome = "ok"
TickDone == last.op = "update_aircraft_positions" /\ last.outcome = "ok"

\* C1: begin-edit on a path, then waypoint moves, inserts and deletes (and
\* update_path_points) on it, interleaved with ticks, then cancel: the path has
\* again the waypoints, distance, speed, altitude and progress it had at
\* begin-edit.
C1_CancelRestores ==
    (CancelDone /\ "void" \notin hist) =>
        /\ pre.id \in StoredIds
        /\ FieldsOf(pre.id) = pre.fields

\* a cancel that followed a waypoint edit and a tick of the session
C1_CancelAfterEditAndTick ==
    /\ CancelDone
    /\ {"edit", "tick"} \subseteq hist
    /\ pre.fields.distance_nm > 0
    /\ FieldsOf(pre.id) = pre.fields

\* C2: a begin-edit issued while a session is open fails: the session's path id
\* and snapshot stay as they are (and so does every stored path).
C2_SecondBeginFails ==
    editing_path_id # NoId =>
        \A path_id \in PathIds :
            LET r == start_path_editing(path_id)
            IN /\ ~r.found
               /\ r.editing_path_id = editing_path_id
               /\ r.original_path_data = original_path_data
               /\ r.lists = lists

\* C3: remove_waypoint on a stored path of exactly 2 waypoints returns False for
\* every index and leaves the waypoints and the distance of the path as they are.
C3_RemoveKeepsTwo ==
    \A path_id \in StoredIds :
        Len(PointsOf(path_id)) = 2 =>
            \A index \in InputIndexes :
                LET r == remove_waypoint(path_id, index)
                IN /\ ~r.ok
                   /\ r.lists[r.dicts[FindPath(path_id)].points] = PointsOf(path_id)
                   /\ r.dicts[FindPath(path_id)].distance_nm = PathOf(path_id).distance_nm

\* a refused deletion on the 2-waypoint path of the session
C3_RefusedOnTwo ==
    /\ last.op = "on_waypoint_deleted"
    /\ last.outcome = "fail"
    /\ editing_path_id \in StoredIds
    /\ Len(PointsOf(editing_path_id)) = 2
    /\ emitted # <<>>

\* C4: every stored path has at least 2 waypoints.
C4_AtLeastTwoWaypoints ==
    \A path_id \in StoredIds : Len(PointsOf(path_id)) >= 2

\* the path of a result r has the distance of its own waypoints
DistanceRecomputed(r, path_id) ==
    r.ok => r.dicts[FindPath(path_id)].distance_nm
              = _calculate_distance(r.lists[r.dicts[FindPath(path_id)].points])

\* C5: right after a successful update_path_points, insert_waypoint,
\* remove_waypoint or waypoint move, the distance of the path is the distance
\* function of its waypoints.
C5_MutationRecomputesDistance ==
    \A path_id \in PathIds :
        /\ \A index \in InputIndexes, point \in InputPoints :
              /\ DistanceRecomputed(insert_waypoint(path_id, index, point), path_id)
              /\ DistanceRecomputed(on_waypoint_moved(path_id, index, point), path_id)
        /\ \A index \in InputIndexes :
              DistanceRecomputed(remove_waypoint(path_id, index), path_id)
        /\ \A new_points \in InputPaths :
              DistanceRecomputed(update_path_points(path_id, new_points), path_id)

\* an insert into a path whose stored distance was not that of its waypoints
C5_InsertRepairedDistance ==
    /\ last.op = "on_waypoint_inserted"
    /\ last.outcome = "ok"
    /\ editing_path_id \in StoredIds
    /\ pre.id = editing_path_id
    /\ pre.fields.distance_nm # _calculate_distance(pre.fields.points)
    /\ PathOf(editing_path_id).distance_nm = _calculate_distance(PointsOf(editing_path_id))

\* C6: in every state the distance of every stored path is the distance function
\* of its waypoints, also right after a creation with a distance the caller gave.
C6_DistanceMatchesWaypoints ==
    \A path_id \in StoredIds :
        PathOf(path_id).distance_nm = _calculate_distance(PointsOf(path_id))

\* C7: the progress of every path with a distance above 0 stays in [0, 1).
C7_ProgressInUnitInterval ==
    \A path_id \in StoredIds :
        PathOf(path_id).distance_nm > 0 =>
            /\ 0 <= PathOf(path_id).current_position
            /\ PathOf(path_id).current_position < PosOne

\* a tick that moved a path by more than its whole length
C7_TickBeyondOneLap ==
    /\ TickDone
    /\ \E path_id \in StoredIds :
          /\ PathOf(path_id).distance_nm > 0
          /\ PositionDelta(PathOf(path_id), last.dt) > PosOne
          /\ PathOf(path_id).current_position > 0

\* C8: one update_positions(elapsed) sets the progress of every path with a
\* distance above 0, aircraft or track, to
\* (old progress + speed / 3600 * elapsed / distance) modulo 1.
C8_TickAdvancesModuloOne ==
    \A delta_time \in ElapsedTimes :
        \A path_id \in StoredIds :
            PathOf(path_id).distance_nm > 0 =>
                update_positions(delta_time).dicts[FindPath(path_id)].current_position
                  = (PathOf(path_id).current_position
                       + PositionDelta(PathOf(path_id), delta_time)) % PosOne

\* a second tick of several laps, from a progress the first tick left above 0
C8_SecondTickOfSeveralLaps ==
    /\ TickDone
    /\ ticks = 2
    /\ \E path_id \in StoredIds :
          /\ PathOf(path_id).distance_nm > 0
          /\ PositionDelta(PathOf(path_id), last.dt) >= 2 * PosOne
          /\ PathOf(path_id).current_position
               = (2 * PositionDelta(PathOf(path_id), last.dt)) % PosOne
          /\ PathOf(path_id).current_position
               # PositionDelta(PathOf(path_id), last.dt) % PosOne

\* C9: writing into a value returned by get_path_by_id or get_all_paths (one of
\* its fields, or its waypoint list) leaves the store as it is.
C9_ReturnedValuesIndependent ==
    \A path_id \in ReturnedIds(ret) :
        /\ \A point \in InputPoints :
              LET w == WriteReturnedWaypoint(ret, path_id, 0, point)
              IN StoreView(aircraft_paths, track_paths, w.dicts, w.lists)
                   = StoreView(aircraft_paths, track_paths, dicts, lists)
        /\ LET w == WriteReturnedField(ret, path_id, ReaderSpeed)
           IN StoreView(aircraft_paths, track_paths, w.dicts, w.lists)
                = StoreView(aircraft_paths, track_paths, dicts, lists)

\* C10: begin-edit followed by commit with nothing in between leaves the path
\* with the waypoints, distance, speed, altitude and progress it had before.
C10_CommitWithoutEdits ==
    (SaveDone /\ hist = {"open"}) =>
        /\ pre.id \in StoredIds
        /\ FieldsOf(pre.id) = pre.fields

\* such a commit on a path that ticks had moved before the session
C10_CommitOfMovedPath ==
    /\ SaveDone
    /\ hist = {"open"}
    /\ pre.fields.current_position > 0
    /\ FieldsOf(pre.id) = pre.fields

\* C11: a commit from Editing changes no field of any stored path, discards the
\* snapshot and leaves the controller Idle.
C11_CommitKeepsStore ==
    editing_path_id # NoId =>
        LET r == save_path_edits
        IN /\ r.done
           /\ StoreView(aircraft_paths, track_paths, r.dicts, r.lists)
                = StoreView(aircraft_paths, track_paths, dicts, lists)
           /\ r.editing_path_id = NoId
           /\ r.original_path_data = NoData

\* a commit after waypoint edits: the edited path stands, the session is gone
C11_CommitAfterEdit ==
    /\ SaveDone
    /\ "edit" \in hist
    /\ "void" \notin hist
    /\ editing_path_id = NoId
    /\ original_path_data = NoData
    /\ FieldsOf(pre.id).points # pre.fields.points

\* the paths other than the one of the session keep waypoints, distance and
\* progress in the result r
OtherPathsKept(r) ==
    \A q \in StoredIds \ {editing_path_id} :
        /\ r.lists[r.dicts[FindPath(q)].points] = PointsOf(q)
        /\ r.dicts[FindPath(q)].distance_nm = PathOf(q).distance_nm
        /\ r.dicts[FindPath(q)].current_position = PathOf(q).current_position

\* C12: while a session is open on p, an edit command (waypoint move, insert,
\* delete, edit completed) that names another path changes the waypoints,
\* distance and progress of no path other than p.
C12_MismatchedCommandsIgnored ==
    editing_path_id # NoId =>
        \A path_id \in PathIds \ {editing_path_id} :
            /\ \A op \in WaypointCommands, index \in InputIndexes, point \in InputPoints :
                  OtherPathsKept(on_waypoint_command(op, path_id, index, point))
            /\ \A new_points \in InputPaths :
                  OtherPathsKept(on_path_edit_completed(path_id, new_points))

\* C13: a delete request for the path of the open session is rejected: the
\* path stays in the store (delete_selected_path leaves the session as it is).
C13_DeleteOfEditedPathRejected ==
    editing_path_id \in StoredIds =>
        LET r == delete_path(editing_path_id)
        IN /\ r.deleted = 0
           /\ r.aircraft_paths = aircraft_paths
           /\ r.track_paths = track_paths

\* C15: after clear_all the store holds no path and both counters are 1: the
\* next aircraft created is AC-0001, the next track TRK-0001.
C15_ClearAllResets ==
    last.op = "clear_all_paths" =>
        /\ aircraft_paths = EmptyDict
        /\ track_paths = EmptyDict
        /\ next_aircraft_id = 1
        /\ next_track_id = 1
        /\ \A points \in InputPaths :
              /\ add_aircraft_path(points, 0, 0, 0, 400, 10000).path_id = AircraftId(1)
              /\ add_track_path(points, 0, 0, 0, 350, 5000).path_id = TrackId(1)

\* the second path of a run is AC-0001 again: the store was cleared in between
C15_FirstIdAfterClear ==
    /\ last.op = "on_path_drawn"
    /\ clock = 2
    /\ StoredIds = {AircraftId(1)}
    /\ PathOf(AircraftId(1)).created = 1

PositionUpdatesSent == {k \in 1..Len(emitted) : emitted[k].sig = "updatePosition"}

C17_BatchInOneNotification ==
    TickDone =>
        LET batch == update_positions(0).updates
        IN  IF batch = <<>>
            THEN PositionUpdatesSent = {}
            ELSE /\ Cardinality(PositionUpdatesSent) = 1
                 /\ \A k \in PositionUpdatesSent : emitted[k].batch = batch

C17_TickWithTwoUpdates ==
    /\ TickDone
    /\ Cardinality(PositionUpdatesSent) = 1
    /\ Len(emitted[1].batch) = 2
    /\ emitted[1].batch[1].id # emitted[1].batch[2].id

\* C19: begin-edit on an id that is not in the store fails: the session fields
\* are left as they were (so an Idle controller stays Idle and holds no
\* snapshot) and no edit-started notification is sent
C19_UnknownIdFails ==
    /\ \A path_id \in PathIds \ StoredIds :
          LET r == start_path_editing(path_id)
          IN  /\ ~r.found
              /\ r.editing_path_id = editing_path_id
              /\ r.original_path_data = original_path_data
              /\ r.lists = lists
    /\ (last.op = "start_path_editing" /\ last.outcome = "fail") =>
          \A k \in 1..Len(emitted) : emitted[k].sig # "startPathEditing"

C19_FailedBeginWhileIdle ==
    /\ last.op = "start_path_editing"
    /\ last.outcome = "fail"
    /\ StoredIds # {}
    /\ editing_path_id = NoId
    /\ original_path_data = NoData
    /\ emitted # <<>>

\* C20: while the controller is Idle, save, cancel and the waypoint move,
\* insert and delete commands change no stored path, send no edit-stopped
\* notification and leave the controller Idle
EditStoppedSent(sent) == \E k \in 1..Len(sent) : sent[k].sig = "stopPathEditing"

IdleNoOp(r) ==
    /\ ~r.done
    /\ r.dicts = dicts
    /\ r.lists = lists
    /\ r.editing_path_id = NoId
    /\ r.original_path_data = NoData
    /\ ~EditStoppedSent(r.emitted)

C20_IdleCommandsAreNoOps ==
    /\ editing_path_id = NoId =>
          /\ original_path_data = NoData
          /\ IdleNoOp(save_path_edits)
          /\ IdleNoOp(cancel_path_editing)
          /\ \A op \in WaypointCommands, path_id \in PathIds,
                 index \in InputIndexes, point \in InputPoints :
                LET r == on_waypoint_command(op, path_id, index, point)
                IN  ~r.ok /\ r.dicts = dicts /\ r.lists = lists
    /\ (last.outcome = "ignored" /\ editing_path_id = NoId) => ~EditStoppedSent(emitted)

C20_CancelIgnoredWhileIdle ==
    /\ last.op = "cancel_path_editing"
    /\ last.outcome = "ignored"
    /\ StoredIds # {}
    /\ editing_path_id = NoId
    /\ emitted = <<>>

\* C14: between two clear_all calls no id is returned twice by
\* add_aircraft_path / add_track_path, whichever thread calls them and whether
\* or not the path of an earlier id is still stored; the id a call in progress
\* is about to return is none of those returned before it
C14_IssuedIdsDistinct ==
    /\ \A i, j \in 1..Len(issued) : i # j => issued[i].id # issued[j].id
    /\ \A t \in Threads :
          (threads[t].call.op \in AddOps /\ threads[t].pc \in {"next_id", "store", "return"}) =>
             \A k \in 1..Len(issued) : issued[k].id # threads[t].path_id

C14_ThirdIdAfterDeleteAndRace ==
    /\ Len(issued) = 3
    /\ \A k \in 1..3 : issued[k].id = AircraftId(k)
    /\ AircraftId(1) \notin StoredIds
    /\ issued[3].contended = "add_aircraft_path"
    /\ issued[2].by # issued[3].by

\* C18: an update_positions call and a waypoint mutation made by two threads
\* leave the store as the two bodies leave it when run one after the other in
\* the order they got the lock: at its return each call has turned the store
\* it found into the one its body alone makes of it
C18_TickAndMutationSerial ==
    \A t \in Threads :
       (threads[t].pc = "return" /\ threads[t].call.op \in MutationOps \cup {"update_positions"}) =>
          StoreNow = threads[t].expected

C18_InsertWaitedForTick ==
    \E t \in Threads :
       /\ threads[t].pc = "return"
       /\ threads[t].call.op = "insert_waypoint"
       /\ threads[t].contended = "update_positions"
       /\ Len(PointsOf(threads[t].call.path_id)) = 3
       /\ \E p \in StoredIds \ {threads[t].call.path_id} : PathOf(p).current_position > 0

\* C21: for a stored path with waypoints w and an index i with 0 <= i <= len(w),
\* insert_waypoint returns True and the waypoints become w[0..i), the new
\* point, w[i..]: one longer, the old waypoints in their order
C21_InsertAtIndex ==
    \A path_id \in StoredIds, point \in InputPoints :
       \A i \in 0..Len(PointsOf(path_id)) :
          LET w == PointsOf(path_id)
              r == insert_waypoint(path_id, i, point)
              after == r.lists[r.dicts[FindPath(path_id)].points]
          IN  /\ r.ok
              /\ Len(after) = Len(w) + 1
              /\ \A k \in 1..i : after[k] = w[k]
              /\ after[i + 1] = point
              /\ \A k \in (i + 1)..Len(w) : after[k + 1] = w[k]

C21_InsertedInTheMiddle ==
    /\ last.op = "on_waypoint_inserted"
    /\ last.outcome = "ok"
    /\ hist = {"open", "edit"}
    /\ Len(pre.fields.points) = 2
    /\ pre.fields.points[1] # pre.fields.points[2]
    /\ Len(PointsOf(editing_path_id)) = 3
    /\ PointsOf(editing_path_id)[1] = pre.fields.points[1]
    /\ PointsOf(editing_path_id)[2] = pre.fields.points[1]
    /\ PointsOf(editing_path_id)[3] = pre.fields.points[2]

\* C22: a store command that is rejected (unknown id for update_path_points,
\* insert_waypoint, remove_waypoint, delete_path; index below 0 or beyond the
\* waypoints for insert_waypoint, remove_waypoint, waypoint move) hands back a
\* value that tells the failure, one it does not hand back when it succeeds,
\* and leaves all paths and both counters as they were
StoreCommands == {"update_path_points", "insert_waypoint", "remove_waypoint",
                  "delete_path", "on_waypoint_moved"}

StoreCommand(op, path_id, index, point, new_points) ==
    CASE op = "update_path_points" ->
           LET r == update_path_points(path_id, new_points)
           IN [value |-> Returned(op, r),
               view |-> StoreView(aircraft_paths, track_paths, r.dicts, r.lists)]
      [] op = "insert_waypoint" ->
           LET r == insert_waypoint(path_id, index, point)
           IN [value |-> Returned(op, r),
               view |-> StoreView(aircraft_paths, track_paths, r.dicts, r.lists)]
      [] op = "remove_waypoint" ->
           LET r == remove_waypoint(path_id, index)
           IN [value |-> Returned(op, r),
               view |-> StoreView(aircraft_paths, track_paths, r.dicts, r.lists)]
      [] op = "delete_path" ->
           LET r == delete_path(path_id)
           IN [value |-> Returned(op, r),
               view |-> StoreView(r.aircraft_paths, r.track_paths, dicts, lists)]
      [] op = "on_waypoint_moved" ->
           LET r == on_waypoint_moved(path_id, index, point)
           IN [value |-> Returned(op, r),
               view |-> StoreView(aircraft_paths, track_paths, r.dicts, r.lists)]

ValueOfSuccess(op) == Returned(op, [ok |-> TRUE, deleted |-> 1])

IndexRejected(op, path_id, index) ==
    /\ path_id \in StoredIds
    /\ \/ index < 0
       \/ op = "insert_waypoint" /\ index > Len(PointsOf(path_id))
       \/ op \in {"remove_waypoint", "on_waypoint_moved"} /\ index >= Len(PointsOf(path_id))

RejectedCleanly(op, path_id, index, point, new_points) ==
    LET c == StoreCommand(op, path_id, index, point, new_points)
    IN  /\ c.value # ValueOfSuccess(op)
        /\ c.view = StoreView(aircraft_paths, track_paths, dicts, lists)

C22_RejectedCommandsFail ==
    \A path_id \in PathIds, index \in InputIndexes, point \in InputPoints,
       new_points \in InputPaths :
       /\ path_id \notin StoredIds =>
             \A op \in StoreCommands \ {"on_waypoint_moved"} :
                RejectedCleanly(op, path_id, index, point, new_points)
       /\ \A op \in {"insert_waypoint", "remove_waypoint", "on_waypoint_moved"} :
             IndexRejected(op, path_id, index) =>
                RejectedCleanly(op, path_id, index, point, new_points)

\* C23: clear_all_paths during an edit session empties the store and leaves no
\* edit session active
C23_ClearAllAbandonsSession ==
    (last.op = "clear_all_paths" /\ "open" \in hist) =>
       /\ StoredIds = {}
       /\ editing_path_id = NoId
       /\ original_path_data = NoData

\* C24: a thread that is at a statement reading or writing the path
\* dictionaries or the id counters holds the store lock
AccessPcs == {"path_id", "next_id", "store", "pop", "clear", "reset", "for", "advance",
              "wrap", "points", "distance", "clamp", "len_aircraft", "len_tracks"}

C24_AccessesUnderLock ==
    \A t \in Threads : threads[t].pc \in AccessPcs => lock = t

\* C25: the lock is held only inside the body of one method call: a thread
\* that has returned from one path creation and has not entered the body of
\* its next call does not hold it, so between two creations of a generating
\* thread the lock is free and a waiting update_positions call may take it
BodyPcs == {"path_id", "next_id", "store", "pop", "clear", "reset", "for", "advance",
            "wrap", "points", "distance", "clamp", "return"}

C25_LockFreeBetweenCreations ==
    /\ \A t \in Threads : threads[t].pc \notin BodyPcs => lock # t
    /\ \A t \in Threads :
          (threads[t].pc = "acquire" /\ threads[t].call.op = "update_positions"
             /\ \A u \in Threads \ {t} : threads[u].pc \notin BodyPcs) => CanAcquire(t)

C25_TickBetweenTwoCreations ==
    \E t, u \in Threads :
       /\ threads[t].call.op = "update_positions"
       /\ threads[t].contended \in AddOps
       /\ threads[t].pc = "return"
       /\ Len(issued) = 1
       /\ issued[1].by = u
       /\ threads[u].call.op \in AddOps
       /\ threads[u].pc = "acquire"

\* C26: no thread waits for the lock while it holds it, and under fair
\* scheduling every update_positions call that has begun returns
TickStarted(t) == threads[t].call.op = "update_positions" /\ threads[t].pc = "acquire"

C26_TickReturns ==
    /\ [](\A t \in Threads : threads[t].pc = "acquire" => lock # t)
    /\ \A t \in Threads : TickStarted(t) ~> (threads[t].pc = "idle")

C26_TickWaitedAndFinished ==
    \E t \in Threads :
       /\ threads[t].call.op = "update_positions"
       /\ threads[t].pc = "return"
       /\ threads[t].contended \in MutationOps
       /\ lock = t

\* C27: update_path_points on a known id returns True, the waypoints are
\* new_points, the distance is the one of new_points, the progress is kept
\* when it is at most 0.999 and is 0.999 when it was larger; on an unknown id
\* it returns False (and changes nothing)
C27_ReplaceClampsProgress ==
    \A path_id \in PathIds, new_points \in InputPaths :
       LET r == update_path_points(path_id, new_points)
       IN  IF path_id \in StoredIds
           THEN LET before == PathOf(path_id)
                    after == r.dicts[FindPath(path_id)]
                IN  /\ r.ok
                    /\ r.lists[after.points] = new_points
                    /\ after.distance_nm = _calculate_distance(new_points)
                    /\ after.current_position =
                          (IF before.current_position <= PosClamp
                           THEN before.current_position ELSE PosClamp)
           ELSE /\ ~r.ok
                /\ r.dicts = dicts
                /\ r.lists = lists

C27_ReplacedNearTheEnd ==
    /\ last.op = "on_path_edit_completed"
    /\ last.outcome = "ok"
    /\ \E path_id \in StoredIds :
          /\ PathOf(path_id).current_position = PosClamp
          /\ Len(PointsOf(path_id)) = 1
          /\ PathOf(path_id).distance_nm = 0

\* C28: on_waypoint_deleted shows the minimum-2-waypoints message exactly when
\* the deletion was refused on a path that has no more than two waypoints; a
\* deletion refused for its index or for a missing path does not show it
MinimumWaypointsShown ==
    \E k \in 1..Len(emitted) :
       /\ emitted[k].sig = "warning"
       /\ emitted[k].text = "Cannot delete waypoint. Minimum 2 waypoints required."

C28_MinimumMessageOnlyForTwo ==
    last.op = "on_waypoint_deleted" =>
       (MinimumWaypointsShown <=>
          /\ last.outcome = "fail"
          /\ FindPath(editing_path_id) # 0
          /\ Len(PointsOf(editing_path_id)) <= 2)

\* C29: every path of the aircraft partition is stored under its own AC id
\* with type aircraft, every path of the track partition under its own TRK id
\* with type track, and no step of the program changes the id, the type or
\* the creation time of a path that stays in the store
PartitionsTyped ==
    /\ \A i \in DOMAIN aircraft_paths :
          /\ i[1] = "AC"
          /\ dicts[aircraft_paths[i]].id = i
          /\ dicts[aircraft_paths[i]].type = "aircraft"
    /\ \A i \in DOMAIN track_paths :
          /\ i[1] = "TRK"
          /\ dicts[track_paths[i]].id = i
          /\ dicts[track_paths[i]].type = "track"

IdentityKept ==
    \A i \in StoredIds :
       i \in StoredIds' =>
          /\ PathOf(i)'.id = PathOf(i).id
          /\ PathOf(i)'.type = PathOf(i).type
          /\ PathOf(i)'.created = PathOf(i).created

C29_IdentityImmutable == []PartitionsTyped /\ [][IdentityKept]_vars

C29_CommitAfterEveryKindOfChange ==
    /\ SaveDone
    /\ {"edit", "replace", "tick"} \subseteq hist
    /\ "void" \notin hist
    /\ clock > pre.created
    /\ PathOf(pre.id).created = pre.created

\* C30: while an edit session is open the snapshot keeps, field by field and
\* waypoint by waypoint, what the path held at begin-edit, whatever waypoint
\* moves, inserts, deletes, update_path_points and ticks did to the live path
SnapshotFields ==
    [points |-> lists[original_path_data.points],
     distance_nm |-> original_path_data.distance_nm,
     speed_kts |-> original_path_data.speed_kts,
     altitude_ft |-> original_path_data.altitude_ft,
     current_position |-> original_path_data.current_position]

C30_SnapshotIndependent ==
    (editing_path_id # NoId /\ original_path_data # NoData) =>
       /\ original_path_data.id = pre.id
       /\ original_path_data.created = pre.created
       /\ SnapshotFields = pre.fields

C30_LivePathMovedAwayFromSnapshot ==
    /\ editing_path_id \in StoredIds
    /\ original_path_data # NoData
    /\ {"edit", "tick"} \subseteq hist
    /\ "void" \notin hist
    /\ SnapshotFields = pre.fields
    /\ PointsOf(editing_path_id) # SnapshotFields.points
    /\ PathOf(editing_path_id).distance_nm # SnapshotFields.distance_nm
    /\ PathOf(editing_path_id).current_position # SnapshotFields.current_position

\* the five mutable fields path_id would hold after cancel_path_editing
FieldsAfterCancel(path_id) ==
    LET r == cancel_path_editing
        d == r.dicts[FindPath(path_id)]
    IN [points |-> r.lists[d.points],
        distance_nm |-> d.distance_nm,
        speed_kts |-> d.speed_kts,
        altitude_ft |-> d.altitude_ft,
        current_position |-> d.current_position]

\* C31: cancel writes the snapshot only onto the path it was captured from: a
\* stored path that is another instance (its creation stamp is not the one of
\* the session's path, so under the session's id it was created after the
\* session began) holds after cancel the fields it held before
C31_CancelSparesLaterPaths ==
    (editing_path_id # NoId /\ original_path_data # NoData /\ pre # NoPre) =>
       \A path_id \in StoredIds :
          PathOf(path_id).created # pre.created =>
             FieldsAfterCancel(path_id) = FieldsOf(path_id)

\* the result r of a waypoint method on path_id keeps the speed, altitude and
\* progress of that path, every field and waypoint of every other stored path
\* and the set of path dicts
FrameKept(r, path_id) ==
    /\ DOMAIN r.dicts = DOMAIN dicts
    /\ r.dicts[FindPath(path_id)].speed_kts = PathOf(path_id).speed_kts
    /\ r.dicts[FindPath(path_id)].altitude_ft = PathOf(path_id).altitude_ft
    /\ r.dicts[FindPath(path_id)].current_position = PathOf(path_id).current_position
    /\ \A q \in StoredIds \ {path_id} :
          /\ r.dicts[FindPath(q)] = PathOf(q)
          /\ r.lists[PathOf(q).points] = PointsOf(q)

\* every waypoint method, on every stored path and every index it accepts
MethodsKeepFrame ==
    \A path_id \in StoredIds, index \in InputIndexes :
       /\ \A r \in {remove_waypoint(path_id, index)} : r.ok => FrameKept(r, path_id)
       /\ \A point \in InputPoints :
             /\ \A r \in {insert_waypoint(path_id, index, point)} :
                   r.ok => FrameKept(r, path_id)
             /\ path_id = editing_path_id =>
                   \A r \in {on_waypoint_moved(path_id, index, point)} :
                      r.ok => FrameKept(r, path_id)

\* a step of on_waypoint_moved, on_waypoint_inserted or on_waypoint_deleted
\* that changed the path of the session
WaypointEdited == last'.op \in WaypointCommands /\ last'.outcome = "ok"

HandlersKeepFrame ==
    WaypointEdited =>
       /\ next_aircraft_id' = next_aircraft_id
       /\ next_track_id' = next_track_id
       /\ StoredIds' = StoredIds
       /\ PathOf(editing_path_id)'.speed_kts = PathOf(editing_path_id).speed_kts
       /\ PathOf(editing_path_id)'.altitude_ft = PathOf(editing_path_id).altitude_ft
       /\ PathOf(editing_path_id)'.current_position = PathOf(editing_path_id).current_position
       /\ \A q \in StoredIds \ {editing_path_id} :
             /\ FieldsOf(q)' = FieldsOf(q)
             /\ PathOf(q)'.id = PathOf(q).id
             /\ PathOf(q)'.created = PathOf(q).created

\* C32: a successful insert_waypoint, remove_waypoint or in-session waypoint
\* move on path p changes only p's waypoints and distance: p's speed, altitude
\* and progress, every other stored path and both id counters stay as they were
C32_WaypointEditFrame == []MethodsKeepFrame /\ [][HandlersKeepFrame]_vars

\* a waypoint was deleted from the path of the session after it had advanced,
\* while another path that had advanced too is stored
C32_DeletedBesideAnotherPath ==
    /\ last.op = "on_waypoint_deleted"
    /\ last.outcome = "ok"
    /\ PathOf(editing_path_id).current_position > 0
    /\ \E q \in StoredIds \ {editing_path_id} : PathOf(q).current_position > 0
    /\ next_aircraft_id + next_track_id = 4

\* C33: the snapshot start_path_editing captured, with another thread calling
\* the store in between, holds waypoints, distance, speed, altitude and
\* progress that the path held together at one instant between the read of
\* get_path_by_id and the copy of the waypoints
C33_SnapshotOfOneInstant ==
    (editing_path_id # NoId /\ original_path_data # NoData /\ ret.kind = "path_data") =>
       SnapshotFields \in ret.held

\* the positions in `emitted` of the signals named in sigs
Positions(sigs) == {k \in 1..Len(emitted) : emitted[k].sig \in sigs}

\* C34: when Save or Cancel ends a session, stopPathEditing is emitted before
\* the payload for the path of the session (addPath on commit, restorePath
\* with the snapshot on cancel), and the session is cleared only after both
\* were emitted
C34_StopThenPayloadThenReset ==
    last.op \in {"save_path_edits", "cancel_path_editing"} =>
       LET payload == IF last.op = "save_path_edits" THEN "addPath" ELSE "restorePath"
       IN /\ \A k \in Positions({payload}) :
                /\ \E j \in Positions({"stopPathEditing"}) : j < k
                /\ emitted[k].id = pre.id
          /\ (last.outcome \in {"running", "ok"} /\ editing_path_id = NoId) =>
                /\ Positions({"stopPathEditing"}) # {}
                /\ Positions({payload}) # {}
          /\ last.outcome = "ok" =>
                /\ editing_path_id = NoId
                /\ original_path_data = NoData

\* Cancel has emitted stopPathEditing and restorePath for an edited path and
\* has not cleared the session yet
C34_BothSentSessionStillSet ==
    /\ last = [op |-> "cancel_path_editing", outcome |-> "running", dt |-> 0]
    /\ emitted = <<[sig |-> "stopPathEditing"], [sig |-> "restorePath", id |-> pre.id]>>
    /\ editing_path_id = pre.id
    /\ original_path_data # NoData
    /\ "edit" \in hist

\* C35: for every progress update_positions leaves on a moving path, the
\* second sample of _calculate_heading, min(progress + 0.01, 0.999), is not
\* behind the first: it is at least the progress itself
C35_SecondSampleNotBehind ==
    TickDone =>
       \A path_id \in StoredIds :
          (PathOf(path_id).distance_nm > 0
           /\ 0 <= PathOf(path_id).current_position
           /\ PathOf(path_id).current_position < PosOne) =>
             next_pos(PathOf(path_id).current_position) >= PathOf(path_id).current_position

====
